---- MODULE Spec2Model ----
(***************************************************************************)
(* Verification model of the geomagnetic-mortality application:            *)
(*   - the preprocessing pipeline (preprocess_data.py): its stages, the    *)
(*     way it persists the four artifact files, and its pure functions     *)
(*     (mortality loading, merging, weekly aggregation with lags,          *)
(*     correlations, summary statistics);                                  *)
(*   - the data loader (utils/data_loader.py) with its time-limited cache  *)
(*     and the landing page's own load_data wrapper (streamlit_app.py).    *)
(* Several specifications share the variables; each one pins the variables *)
(* it does not use.                                                        *)
(***************************************************************************)
EXTENDS Integers, Sequences, FiniteSets, TLC

VARIABLES
    \* ---- artifact store, pipeline run, page evaluation (Spec) ----
    disk,         \* artifact file name -> content (Absent, Partial or the id of the run that wrote it)
    pstage,       \* pipeline position: "idle", "failed" or a stage of StageSeq
    pfile,        \* number of artifact files this run has finished writing
    pwriting,     \* TRUE while the next artifact file is open for writing (truncated)
    run,          \* id of the current / latest pipeline run
    diskAtStart,  \* content of the artifact store when the current run started
    failedIn,     \* stage in which the latest run failed, or "none"
    lastPersist,  \* "complete" when the store was left by a finished persist, else "partial"
    clock,        \* seconds on the application process's monotonic clock
    spc,          \* page evaluation position
    page,         \* page being evaluated
    loading,      \* contents read so far by the running load_preprocessed_data() body
    clean,        \* the running load started on a complete store and no file was opened for writing since
    lookupAge,    \* age of the load_preprocessed_data cache entry at lookup, -1 when none / not looked up
    expiredAtStart, \* at the start of the page evaluation the cached bundle was 3600s old or more
    ret,          \* cache entry (bundle, load time) handed to the page, or NoEntry
    pdCache,      \* cache entry of load_preprocessed_data (ttl=3600), or NoEntry
    ldCache,      \* cache entry of the landing page's load_data wrapper (no ttl), or NoEntry
    wkCache,      \* table cached by load_weekly_data() (no ttl): <<id of the run that wrote it>>, or NoTable
    \* ---- load_mortality_data on one source file (SpecLoadMort) ----
    rawFile,      \* rows of the tab-separated source file: year field, week string, deaths
    mortOut,      \* what load_mortality_data returned (or that it raised)
    mpc,          \* "off", "input" or "done"
    \* ---- load_all_mortality_datasets (SpecMerge) ----
    rawFiles,     \* the four source files, in the order of the datasets list
    tables,       \* the four tables returned by load_mortality_data
    merged,       \* the merged, sorted table
    gpc,          \* "off", "input", "done" or "failed"
    \* ---- aggregate_geomagnetic_weekly, compute_summary_stats (SpecWeekly) ----
    mort_df,      \* merged mortality table passed to the aggregation
    geo_df,       \* geomagnetic measurements
    prelag,       \* weekly table after the sort, before the lag columns are added
    weekly_df,    \* the final weekly table
    summary,      \* the summary-statistics record
    shown,        \* what a page section put on screen, or that its evaluation raised
    wpc,          \* "off", "input", "aggregated", "summarised" or "failed"
    \* ---- compute_correlations (SpecCorr) ----
    cscen,        \* the weekly table as seen by the correlation step: row count and data variant
    results,      \* the correlation table
    cpc,          \* "off", "input", "done" or "failed"
    \* ---- Interactive Explorer page (SpecExplorer) ----
    xtable,       \* the weekly table returned by load_weekly_data()
    xview,        \* what one evaluation of the page script put on screen, or where it raised
    xpc,          \* "off", "input" or "done"
    \* ---- clear_cache.py (SpecClearCache) ----
    cache_dir,    \* "absent", "present", or "off" outside SpecClearCache
    console,      \* the runs of the script and the writes of the application so far, oldest first
    \* ---- compare_groups, compute_seasonal_adjustment (SpecStats) ----
    sdf,          \* the table passed to the function
    sout,         \* what the function returned
    stpc,         \* "off", "input", "compared" or "adjusted"
    \* ---- parse_mmwr_week and parse_week_string (SpecCalendar) ----
    wstring,      \* the week string
    calOut,       \* what the two parsers returned for it
    calpc,        \* "off", "input" or "done"
    \* ---- display helpers called on their own (SpecFormat, SpecScatter) ----
    fin,          \* the arguments of the call
    fout,         \* what the call returned
    fpc           \* "off", "input" or "done"

vars == <<disk, pstage, pfile, pwriting, run, diskAtStart, failedIn, lastPersist,
          clock, spc, page, loading, clean, lookupAge, expiredAtStart, ret,
          pdCache, ldCache, wkCache, rawFile, mortOut, mpc, rawFiles, tables, merged, gpc,
          mort_df, geo_df, prelag, weekly_df, summary, shown, wpc, cscen, results, cpc,
          xtable, xview, xpc, cache_dir, console, sdf, sout, stpc, wstring, calOut, calpc,
          fin, fout, fpc>>

pipeVars == <<disk, pstage, pfile, pwriting, run, diskAtStart, failedIn, lastPersist>>
pageVars == <<spc, page, loading, clean, lookupAge, expiredAtStart, ret, pdCache, ldCache,
              wkCache>>
storeVars == <<pipeVars, pageVars, clock>>
mortVars == <<rawFile, mortOut, mpc>>
mergeVars == <<rawFiles, tables, merged, gpc>>
weeklyVars == <<mort_df, geo_df, prelag, weekly_df, summary, shown, wpc>>
corrVars == <<cscen, results, cpc>>
explorerVars == <<xtable, xview, xpc>>
cacheVars == <<cache_dir, console>>
statVars == <<sdf, sout, stpc>>
calVars == <<wstring, calOut, calpc>>
helperVars == <<fin, fout, fpc>>
\* the variables of the page and utility specifications
auxVars == <<explorerVars, cacheVars, statVars, calVars, helperVars>>
\* the variables of the pure-function specifications, untouched by Spec
dataVars == <<mortVars, mergeVars, weeklyVars, corrVars, auxVars>>

\* ---------------------------------------------------------------------------
\* Bounds
\* ---------------------------------------------------------------------------
MaxRuns == 2
TickStep == 1800
MaxClock == 3600

\* ---------------------------------------------------------------------------
\* Artifact store and pipeline run
\* ---------------------------------------------------------------------------
TTL == 3600

Absent == -1
Partial == -2

\* (mutant) main() forgets to save the correlation table
SavedArtifactsNoCorrelation == <<"weekly_merged", "monthly_summary", "summary_stats">>

\* files written by main(), in the order of the writes
SavedArtifacts == <<"weekly_merged", "monthly_summary", "correlation_matrix", "summary_stats">>

\* files read by load_preprocessed_data(), in the order of the reads
LoadedArtifacts == <<"weekly_merged", "monthly_summary", "correlation_matrix", "summary_stats">>

ArtifactNames == {LoadedArtifacts[i] : i \in 1..Len(LoadedArtifacts)}
NumFiles == Len(LoadedArtifacts)

\* (mutant) main() saves the artifacts before the summary statistics are computed
StageSeqEarlyPersist == <<"load_geo", "load_mortality", "aggregate", "correlations",
                          "monthly", "persist", "summary">>

\* the steps of main(), in order
StageSeq == <<"load_geo", "load_mortality", "aggregate", "correlations",
              "monthly", "summary", "persist">>

StageIndex(s) == CHOOSE i \in 1..Len(StageSeq) : StageSeq[i] = s

\* where main() goes after the stage s succeeded
NextStage(s) ==
    IF StageIndex(s) < Len(StageSeq) THEN StageSeq[StageIndex(s) + 1] ELSE "idle"

NoEntry == [bundle |-> <<>>, t |-> -1, clean |-> FALSE]

\* load_weekly_data() has not stored a table
NoTable == <<>>

\* main() is started (by hand; never two runs at once)
StartRun ==
    /\ pstage \in {"idle", "failed"}
    /\ run < MaxRuns
    /\ run' = run + 1
    /\ pstage' = StageSeq[1]
    /\ pfile' = 0
    /\ pwriting' = FALSE
    /\ diskAtStart' = disk
    /\ failedIn' = "none"
    /\ UNCHANGED <<disk, lastPersist, clock>>
    /\ UNCHANGED pageVars
    /\ UNCHANGED dataVars

\* a computing stage of main() returns
ComputeStep ==
    /\ pstage \in {StageSeq[i] : i \in 1..Len(StageSeq)} \ {"persist"}
    /\ pstage' = NextStage(pstage)
    /\ UNCHANGED <<disk, pfile, pwriting, run, diskAtStart, failedIn, lastPersist, clock>>
    /\ UNCHANGED pageVars
    /\ UNCHANGED dataVars

\* a computing stage of main() raises (missing raw file, too few weeks, ...): the run aborts
ComputeFail ==
    /\ pstage \in {StageSeq[i] : i \in 1..Len(StageSeq)} \ {"persist"}
    /\ pstage' = "failed"
    /\ failedIn' = pstage
    /\ UNCHANGED <<disk, pfile, pwriting, run, diskAtStart, lastPersist, clock>>
    /\ UNCHANGED pageVars
    /\ UNCHANGED dataVars

\* to_parquet / open(.., 'w') opens the next artifact file: it is truncated
OpenWrite ==
    /\ pstage = "persist"
    /\ ~pwriting
    /\ pfile < Len(SavedArtifacts)
    /\ disk' = [disk EXCEPT ![SavedArtifacts[pfile + 1]] = Partial]
    /\ pwriting' = TRUE
    /\ lastPersist' = "partial"
    /\ clean' = IF spc = "read" THEN FALSE ELSE clean
    /\ UNCHANGED <<pstage, pfile, run, diskAtStart, failedIn, clock>>
    /\ UNCHANGED <<spc, page, loading, lookupAge, expiredAtStart, ret, pdCache, ldCache,
                   wkCache>>
    /\ UNCHANGED dataVars

\* the write of the open artifact file finishes
CloseWrite ==
    /\ pstage = "persist"
    /\ pwriting
    /\ disk' = [disk EXCEPT ![SavedArtifacts[pfile + 1]] = run]
    /\ pwriting' = FALSE
    /\ pfile' = pfile + 1
    /\ lastPersist' = IF pfile + 1 = Len(SavedArtifacts) THEN "complete" ELSE lastPersist
    /\ UNCHANGED <<pstage, run, diskAtStart, failedIn, clock>>
    /\ UNCHANGED pageVars
    /\ UNCHANGED dataVars

\* mkdir, opening a file or writing it raises (I/O error, unserialisable value): the run aborts
PersistFail ==
    /\ pstage = "persist"
    /\ pfile < Len(SavedArtifacts)
    /\ pstage' = "failed"
    /\ failedIn' = "persist"
    /\ pwriting' = FALSE
    /\ UNCHANGED <<disk, pfile, run, diskAtStart, lastPersist, clock>>
    /\ UNCHANGED pageVars
    /\ UNCHANGED dataVars

\* all files are written: the stage after persist, or the end of main()
PersistDone ==
    /\ pstage = "persist"
    /\ ~pwriting
    /\ pfile = Len(SavedArtifacts)
    /\ pstage' = NextStage(pstage)
    /\ UNCHANGED <<disk, pfile, pwriting, run, diskAtStart, failedIn, lastPersist, clock>>
    /\ UNCHANGED pageVars
    /\ UNCHANGED dataVars

\* ---------------------------------------------------------------------------
\* Page evaluation, load_preprocessed_data() and its cache
\* ---------------------------------------------------------------------------
BundlePages == {"landing", "overview", "deep_dive", "methodology"}

\* (mutant) the ttl is taken as 60 seconds
CacheValidShort(entry, now) == entry # NoEntry /\ now - entry.t < 60

\* st.cache_data(ttl=3600): an entry is served while it is younger than the ttl
CacheValid(entry, now) == entry # NoEntry /\ now - entry.t < TTL

\* st.cache_data without ttl: an entry is served for the life of the process
CacheValidForever(entry, now) == entry # NoEntry

\* what the page does with the bundle load_preprocessed_data() returned: the
\* landing page's load_data() stores it in its own cache first
AfterLoad(p, entry) ==
    IF p = "landing" THEN entry ELSE ldCache

\* a page script starts (user interaction or first visit) and asks for the
\* bundle: the landing page through load_data(), the other pages through
\* load_preprocessed_data(); both look up their cache first
BeginPage(p) ==
    /\ spc = "idle"
    /\ page' = p
    /\ expiredAtStart' = (pdCache # NoEntry /\ clock - pdCache.t >= TTL)
    /\ IF p = "landing" /\ CacheValidForever(ldCache, clock)
         THEN \* load_data() hit: load_preprocessed_data() is not called
              /\ ret' = ldCache
              /\ spc' = "render"
              /\ UNCHANGED <<loading, clean, lookupAge, ldCache>>
         ELSE /\ lookupAge' = IF pdCache = NoEntry THEN -1 ELSE clock - pdCache.t
              /\ IF CacheValid(pdCache, clock)
                   THEN /\ ret' = pdCache
                        /\ spc' = "render"
                        /\ ldCache' = AfterLoad(p, pdCache)
                        /\ UNCHANGED <<loading, clean>>
                   ELSE /\ ret' = ret
                        /\ spc' = "read"
                        /\ loading' = <<>>
                        /\ clean' = (lastPersist = "complete")
                        /\ UNCHANGED ldCache
    /\ UNCHANGED <<pdCache, wkCache, clock>>
    /\ UNCHANGED pipeVars
    /\ UNCHANGED dataVars

\* the body of load_preprocessed_data() reads the next file; after the last
\* one the bundle is returned and stored in the cache
ReadFile ==
    /\ spc = "read"
    /\ LET f == LoadedArtifacts[Len(loading) + 1]
           b == Append(loading, disk[f])
       IN IF disk[f] \in {Absent, Partial}
            THEN \* missing or truncated file: the read raises, nothing is cached
                 /\ spc' = "error"
                 /\ UNCHANGED <<loading, ret, pdCache, ldCache>>
            ELSE /\ loading' = b
                 /\ IF Len(b) = NumFiles
                      THEN /\ pdCache' = [bundle |-> b, t |-> clock, clean |-> clean]
                           /\ ldCache' = AfterLoad(page, [bundle |-> b, t |-> clock, clean |-> clean])
                           /\ ret' = [bundle |-> b, t |-> clock, clean |-> clean]
                           /\ spc' = "render"
                      ELSE /\ UNCHANGED <<pdCache, ldCache, ret>>
                           /\ spc' = "read"
    /\ UNCHANGED <<page, clean, lookupAge, expiredAtStart, wkCache, clock>>
    /\ UNCHANGED pipeVars
    /\ UNCHANGED dataVars

\* the page script ends (rendered, or stopped by the exception)
EndPage ==
    /\ spc \in {"render", "error"}
    /\ spc' = "idle"
    /\ ret' = NoEntry
    /\ loading' = <<>>
    /\ lookupAge' = -1
    /\ expiredAtStart' = FALSE
    /\ clean' = FALSE
    /\ page' = "landing"
    /\ UNCHANGED <<pdCache, ldCache, wkCache, clock>>
    /\ UNCHANGED pipeVars
    /\ UNCHANGED dataVars

\* the application process is restarted: the in-memory caches are gone
RestartApp ==
    /\ spc = "idle"
    /\ pdCache # NoEntry \/ wkCache # NoTable
    /\ pdCache' = NoEntry
    /\ ldCache' = NoEntry
    /\ wkCache' = NoTable
    /\ UNCHANGED <<spc, page, loading, clean, lookupAge, expiredAtStart, ret, clock>>
    /\ UNCHANGED pipeVars
    /\ UNCHANGED dataVars

\* time passes
Tick ==
    /\ clock + TickStep <= MaxClock
    /\ clock' = clock + TickStep
    /\ UNCHANGED pipeVars
    /\ UNCHANGED pageVars
    /\ UNCHANGED dataVars

\* the artifact store before the first modelled run: empty, or the complete
\* set left by an earlier run (run 0)
InitStore ==
    /\ disk \in {[f \in ArtifactNames |-> Absent], [f \in ArtifactNames |-> 0]}
    /\ lastPersist = IF disk["weekly_merged"] = Absent THEN "partial" ELSE "complete"

\* variables of the pure-function specifications while they are not in use
MortOff == rawFile = <<>> /\ mortOut = <<>> /\ mpc = "off"
MergeOff == rawFiles = <<>> /\ tables = <<>> /\ merged = <<>> /\ gpc = "off"
WeeklyOff ==
    /\ mort_df = <<>> /\ geo_df = <<>> /\ prelag = <<>> /\ weekly_df = <<>>
    /\ summary = <<>> /\ shown = <<>> /\ wpc = "off"
CorrOff == cscen = <<>> /\ results = <<>> /\ cpc = "off"
ExplorerOff == xtable = <<>> /\ xview = <<>> /\ xpc = "off"
CacheOff == cache_dir = "off" /\ console = <<>>
StatOff == sdf = <<>> /\ sout = <<>> /\ stpc = "off"
CalOff == wstring = <<>> /\ calOut = <<>> /\ calpc = "off"
HelperOff == fin = <<>> /\ fout = <<>> /\ fpc = "off"
AuxOff == ExplorerOff /\ CacheOff /\ StatOff /\ CalOff /\ HelperOff

StoreInit ==
    /\ InitStore
    /\ pstage = "idle"
    /\ pfile = 0
    /\ pwriting = FALSE
    /\ run = 0
    /\ diskAtStart = disk
    /\ failedIn = "none"
    /\ clock = 0
    /\ spc = "idle"
    /\ page = "landing"
    /\ loading = <<>>
    /\ clean = FALSE
    /\ lookupAge = -1
    /\ expiredAtStart = FALSE
    /\ ret = NoEntry
    /\ pdCache = NoEntry
    /\ ldCache = NoEntry
    /\ wkCache = NoTable

\* the running application is idle and no pipeline run is in progress
Init ==
    /\ StoreInit
    /\ MortOff /\ MergeOff /\ WeeklyOff /\ CorrOff /\ AuxOff

Next ==
    \/ StartRun
    \/ ComputeStep
    \/ ComputeFail
    \/ OpenWrite
    \/ CloseWrite
    \/ PersistFail
    \/ PersistDone
    \/ \E p \in BundlePages : BeginPage(p)
    \/ ReadFile
    \/ EndPage
    \/ RestartApp
    \/ Tick

Spec == Init /\ [][Next]_vars

\* The Interactive Explorer page script runs: load_weekly_data()
\* (st.cache_data without ttl) returns the table it has stored, or reads
\* weekly_merged.parquet and stores it; a missing or truncated file raises
\* and nothing is stored.
ExplorerLoad ==
    /\ spc = "idle"
    /\ wkCache' = IF wkCache # NoTable THEN wkCache
                  ELSE IF disk["weekly_merged"] \in {Absent, Partial} THEN NoTable
                  ELSE <<disk["weekly_merged"]>>
    /\ UNCHANGED <<spc, page, loading, clean, lookupAge, expiredAtStart, ret, pdCache,
                   ldCache, clock>>
    /\ UNCHANGED pipeVars
    /\ UNCHANGED dataVars

\* the pipeline and every page of the application, the Explorer included
NextLoaders ==
    \/ Next
    \/ ExplorerLoad

SpecLoaders == Init /\ [][NextLoaders]_vars

\* ---------------------------------------------------------------------------
\* Properties of the artifact store, the pipeline run and the cached loader
\* ---------------------------------------------------------------------------
Consistent(b) == \A i, j \in 1..Len(b) : b[i] = b[j]

ComputeStageNames == {StageSeq[i] : i \in 1..Len(StageSeq)} \ {"persist"}

\* C1 (as stated): whenever a run of main() has failed, at whatever step
\* (persisting included), no artifact file was created or changed by it.
C1_FailedRunChangesNothing ==
    pstage = "failed" => disk = diskAtStart

\* C1 (amended): a run that fails in a step before persisting leaves all four
\* artifact files as they were; a run that fails while persisting leaves the
\* files it finished writing new, the file it was writing old or truncated and
\* the remaining files old; a run that completes leaves all four files new.
C1_FailureBeforePersistChangesNothing ==
    /\ (pstage = "failed" /\ failedIn \in ComputeStageNames) => disk = diskAtStart
    /\ (pstage = "failed" /\ failedIn = "persist") =>
          \A i \in 1..Len(SavedArtifacts) :
             LET f == SavedArtifacts[i]
             IN IF i <= pfile THEN disk[f] = run
                ELSE IF i = pfile + 1 THEN disk[f] \in {diskAtStart[f], Partial}
                ELSE disk[f] = diskAtStart[f]
    /\ (pstage = "idle" /\ run > 0) => \A f \in ArtifactNames : disk[f] = run

C1_Witness ==
    /\ pstage = "failed"
    /\ failedIn = "summary"
    /\ run = 2
    /\ \A f \in ArtifactNames : disk[f] = 1

\* C2 (as stated): every bundle load_preprocessed_data() returns holds four
\* parts written by one and the same pipeline run, whatever the interleaving
\* with a run that is writing the files.
C2_BundleFromOneRun ==
    ret # NoEntry => Consistent(ret.bundle)

\* C2 (amended): a bundle whose four reads started on a store left by a
\* finished persist, and during whose reads no run opened an artifact file for
\* writing, holds four parts written by one and the same run.
C2_QuietLoadFromOneRun ==
    /\ (ret # NoEntry /\ ret.clean) => Consistent(ret.bundle)
    /\ (pdCache # NoEntry /\ pdCache.clean) => Consistent(pdCache.bundle)
    /\ (ldCache # NoEntry /\ ldCache.clean) => Consistent(ldCache.bundle)

C2_Witness ==
    /\ spc = "render"
    /\ ret.clean
    /\ ret.bundle = <<1, 1, 1, 1>>
    /\ pstage = "persist"
    /\ run = 2

\* C3: a call of load_preprocessed_data() that finds a cache entry younger
\* than 3600 seconds returns that entry's bundle and reads no artifact file,
\* whatever happened to the files since the entry was stored.
C3_CachedWithinTTL ==
    (spc \in {"read", "render", "error"} /\ lookupAge >= 0 /\ lookupAge < TTL) =>
        /\ spc = "render"
        /\ loading = <<>>
        /\ ret = pdCache

C3_Witness ==
    /\ spc = "render"
    /\ lookupAge = TickStep
    /\ lookupAge < TTL
    /\ loading = <<>>
    /\ \A f \in ArtifactNames : disk[f] # ret.bundle[1]

\* C4 (as stated): a page evaluation that obtains the bundle when the bundle
\* loaded by load_preprocessed_data() is 3600 seconds old or more reads the
\* four artifact files again, on every page, the landing page included.
C4_RereadAfterTTL ==
    (spc = "render" /\ expiredAtStart) => Len(loading) = NumFiles

\* ---------------------------------------------------------------------------
\* Text and calendar functions (Python str / int / datetime as the code uses them)
\* Text is a sequence of one-character strings.
\* ---------------------------------------------------------------------------
Digits == {"0", "1", "2", "3", "4", "5", "6", "7", "8", "9"}

DigitVal ==
    ("0" :> 0) @@ ("1" :> 1) @@ ("2" :> 2) @@ ("3" :> 3) @@ ("4" :> 4)
    @@ ("5" :> 5) @@ ("6" :> 6) @@ ("7" :> 7) @@ ("8" :> 8) @@ ("9" :> 9)

\* str.split(): the maximal runs of non-whitespace characters
RECURSIVE SplitFrom(_, _, _)
SplitFrom(s, i, cur) ==
    IF i > Len(s)
      THEN IF cur = <<>> THEN <<>> ELSE <<cur>>
      ELSE IF s[i] = " "
             THEN IF cur = <<>> THEN SplitFrom(s, i + 1, <<>>)
                                ELSE <<cur>> \o SplitFrom(s, i + 1, <<>>)
             ELSE SplitFrom(s, i + 1, Append(cur, s[i]))

Split(s) == SplitFrom(s, 1, <<>>)

\* Series.str.contains(pat) for a literal pattern
Contains(s, pat) ==
    \E i \in 1..(Len(s) - Len(pat) + 1) : SubSeq(s, i, i + Len(pat) - 1) = pat

\* str.rstrip(',')
RECURSIVE RStripComma(_)
RStripComma(s) ==
    IF s # <<>> /\ s[Len(s)] = "," THEN RStripComma(SubSeq(s, 1, Len(s) - 1)) ELSE s

\* largest value a C int holds: datetime() raises OverflowError above it
CIntMaxDigits == <<"2", "1", "4", "7", "4", "8", "3", "6", "4", "7">>

RECURSIVE StripZeros(_)
StripZeros(ds) == IF Len(ds) > 1 /\ ds[1] = "0" THEN StripZeros(Tail(ds)) ELSE ds

RECURSIVE DigitsLess(_, _)
\* a < b for two digit sequences of the same length
DigitsLess(a, b) ==
    IF a = <<>> THEN FALSE
    ELSE IF DigitVal[a[1]] # DigitVal[b[1]] THEN DigitVal[a[1]] < DigitVal[b[1]]
    ELSE DigitsLess(Tail(a), Tail(b))

RECURSIVE DigitsValue(_, _)
DigitsValue(ds, acc) ==
    IF ds = <<>> THEN acc ELSE DigitsValue(Tail(ds), acc * 10 + DigitVal[ds[1]])

\* int(text) for a token without surrounding whitespace: an optional sign,
\* then digits, single underscores allowed between digits.
\* ok = FALSE stands for ValueError; big = TRUE for a value above the C int range
PyInt(tok) ==
    LET signed == tok # <<>> /\ tok[1] \in {"+", "-"}
        body == IF signed THEN Tail(tok) ELSE tok
        wellFormed ==
            /\ body # <<>>
            /\ body[1] \in Digits
            /\ body[Len(body)] \in Digits
            /\ \A i \in 1..Len(body) :
                  \/ body[i] \in Digits
                  \/ body[i] = "_" /\ i > 1 /\ body[i - 1] \in Digits
        ds == StripZeros(SelectSeq(body, LAMBDA c : c \in Digits))
        big == \/ Len(ds) > Len(CIntMaxDigits)
               \/ Len(ds) = Len(CIntMaxDigits) /\ DigitsLess(CIntMaxDigits, ds)
        mag == IF big THEN 0 ELSE DigitsValue(ds, 0)
    IN IF ~wellFormed THEN [ok |-> FALSE, big |-> FALSE, val |-> 0]
       ELSE [ok |-> TRUE, big |-> big,
             val |-> IF signed /\ tok[1] = "-" THEN 0 - mag ELSE mag]

\* Series.str.extract(r'(\d{4})'): the first run of four digits, as a number;
\* ok = FALSE stands for the missing value put where nothing matches
ExtractYear(s) ==
    LET starts == {i \in 1..(Len(s) - 3) : \A k \in 0..3 : s[i + k] \in Digits}
    IN IF starts = {} THEN [ok |-> FALSE, val |-> 0]
       ELSE LET i == CHOOSE j \in starts : \A k \in starts : j <= k
            IN [ok |-> TRUE, val |-> DigitsValue(SubSeq(s, i, i + 3), 0)]

IsLeap(y) == (y % 4 = 0) /\ ((y % 100 # 0) \/ (y % 400 = 0))

DaysInMonth(y, m) ==
    IF m = 2 THEN (IF IsLeap(y) THEN 29 ELSE 28)
    ELSE IF m \in {4, 6, 9, 11} THEN 30 ELSE 31

RECURSIVE DaysBeforeMonth(_, _)
DaysBeforeMonth(y, m) ==
    IF m = 1 THEN 0 ELSE DaysBeforeMonth(y, m - 1) + DaysInMonth(y, m - 1)

\* datetime.toordinal(): days since 0001-01-01 (which is day 1)
ToOrdinal(y, m, d) ==
    LET py == y - 1
    IN py * 365 + (py \div 4) - (py \div 100) + (py \div 400) + DaysBeforeMonth(y, m) + d

\* datetime.weekday(): Monday is 0, Saturday is 5
Weekday(ord) == (ord + 6) % 7

Saturday == 5

month_map ==
    (<<"J", "a", "n", "u", "a", "r", "y">> :> 1)
    @@ (<<"F", "e", "b", "r", "u", "a", "r", "y">> :> 2)
    @@ (<<"M", "a", "r", "c", "h">> :> 3)
    @@ (<<"A", "p", "r", "i", "l">> :> 4)
    @@ (<<"M", "a", "y">> :> 5)
    @@ (<<"J", "u", "n", "e">> :> 6)
    @@ (<<"J", "u", "l", "y">> :> 7)
    @@ (<<"A", "u", "g", "u", "s", "t">> :> 8)
    @@ (<<"S", "e", "p", "t", "e", "m", "b", "e", "r">> :> 9)
    @@ (<<"O", "c", "t", "o", "b", "e", "r">> :> 10)
    @@ (<<"N", "o", "v", "e", "m", "b", "e", "r">> :> 11)
    @@ (<<"D", "e", "c", "e", "m", "b", "e", "r">> :> 12)

\* ---------------------------------------------------------------------------
\* load_mortality_data
\* ---------------------------------------------------------------------------
PatWeek == <<"W", "e", "e", "k">>

ParseFailed == [status |-> "none", week_num |-> 0, week_end |-> 0]

\* parse_week_string(s): status "ok" with (week_num, week_end as an ordinal),
\* "none" for the caught IndexError / ValueError / KeyError (returns None, None),
\* "raise" for an exception the except clause does not name (OverflowError)
parse_week_string(s) ==
    LET parts == Split(s)
    IN IF Len(parts) < 3 THEN ParseFailed               \* parts[2]: IndexError
       ELSE LET wk == PyInt(parts[3])
       IN IF ~wk.ok THEN ParseFailed                        \* int(parts[2]): ValueError
       ELSE IF Len(parts) < 5 THEN ParseFailed              \* parts[4]: IndexError
       ELSE IF parts[5] \notin DOMAIN month_map THEN ParseFailed   \* KeyError
       ELSE IF Len(parts) < 6 THEN ParseFailed              \* parts[5]: IndexError
       ELSE LET dy == PyInt(RStripComma(parts[6]))
       IN IF ~dy.ok THEN ParseFailed                        \* int(day): ValueError
       ELSE IF Len(parts) < 7 THEN ParseFailed              \* parts[6]: IndexError
       ELSE LET yr == PyInt(parts[7])
                mo == month_map[parts[5]]
       IN IF ~yr.ok THEN ParseFailed                        \* int(year): ValueError
       ELSE IF yr.big \/ dy.big
              THEN [status |-> "raise", week_num |-> 0, week_end |-> 0]
       ELSE IF yr.val < 1 \/ yr.val > 9999 THEN ParseFailed \* datetime(): ValueError
       ELSE IF dy.val < 1 \/ dy.val > DaysInMonth(yr.val, mo) THEN ParseFailed
       ELSE [status |-> "ok", week_num |-> wk.val,
             week_end |-> ToOrdinal(yr.val, mo, dy.val)]

NoValue == <<>>

Raised == [raised |-> TRUE, rows |-> <<>>]

RECURSIVE MapSeq(_, _)
\* the sequence of Op(x) for the elements x of s, in order
MapSeq(Op(_), s) ==
    IF s = <<>> THEN <<>> ELSE <<Op(Head(s))>> \o MapSeq(Op, Tail(s))

\* Body(x) for x = e, with e computed once
With(e, Body(_)) == CHOOSE out \in {Body(x) : x \in {e}} : TRUE

\* the columns load_mortality_data derives for one kept row
DerivedRow(r, outcome_label) ==
    LET y == ExtractYear(r.year)
        p == parse_week_string(r.week[1])
    IN [yearOk |-> y.ok, status |-> p.status, hasDeaths |-> r.deaths # NoValue,
        row |-> [year |-> y.val, week_num |-> p.week_num,
                 \* week_start = week_end - timedelta(days=6)
                 week_start |-> p.week_end - 6,
                 week_end |-> p.week_end,
                 deaths |-> IF r.deaths = NoValue THEN <<>>
                            ELSE (outcome_label :> r.deaths[1])]]

\* load_mortality_data(filepath, outcome_label) on the rows of a readable file.
\* A row is [year: text, week: <<text>> or NoValue, deaths: <<n>> or NoValue].
load_mortality_data(file, outcome_label) ==
    LET \* dropna(subset=['mmwr_week_string']) and the str.contains('Week') filter
        kept == SelectSeq(file, LAMBDA r : r.week # NoValue /\ Contains(r.week[1], PatWeek))
    IN With(MapSeq(LAMBDA r : DerivedRow(r, outcome_label), kept), LAMBDA derived :
        LET \* .str.extract(r'(\d{4})')[0].astype(int): raises when a kept row has no match
            yearMissing == \E i \in 1..Len(derived) : ~derived[i].yearOk
            parseRaised == \E i \in 1..Len(derived) : derived[i].status = "raise"
            \* dropna(subset=['week_end']), then dropna(subset=[deaths column])
            good == SelectSeq(derived, LAMBDA d : d.status = "ok" /\ d.hasDeaths)
        IN IF yearMissing \/ parseRaised THEN Raised
           ELSE [raised |-> FALSE, rows |-> MapSeq(LAMBDA d : d.row, good)])

\* ---- source rows used as inputs ----
WS_Good2018 == <<"2", "0", "1", "8", " ", "W", "e", "e", "k", " ", "0", "1", " ", "e", "n", "d", "i", "n", "g", " ", "J", "a", "n", "u", "a", "r", "y", " ", "0", "6", ",", " ", "2", "0", "1", "8">>
WS_Good2025 == <<"2", "0", "2", "5", " ", "W", "e", "e", "k", " ", "0", "2", " ", "e", "n", "d", "i", "n", "g", " ", "J", "a", "n", "u", "a", "r", "y", " ", "1", "1", ",", " ", "2", "0", "2", "5">>
WS_Sunday == <<"2", "0", "1", "8", " ", "W", "e", "e", "k", " ", "0", "1", " ", "e", "n", "d", "i", "n", "g", " ", "J", "a", "n", "u", "a", "r", "y", " ", "0", "7", ",", " ", "2", "0", "1", "8">>
WS_BadMonth == <<"2", "0", "1", "8", " ", "W", "e", "e", "k", " ", "0", "5", " ", "e", "n", "d", "i", "n", "g", " ", "F", "e", "b", "u", "a", "r", "y", " ", "0", "3", ",", " ", "2", "0", "1", "8">>
WS_Short == <<"2", "0", "1", "8", " ", "W", "e", "e", "k", " ", "0", "9", " ", "e", "n", "d", "i", "n", "g">>
WS_BadDay == <<"2", "0", "1", "8", " ", "W", "e", "e", "k", " ", "0", "7", " ", "e", "n", "d", "i", "n", "g", " ", "F", "e", "b", "r", "u", "a", "r", "y", " ", "3", "0", ",", " ", "2", "0", "1", "8">>
WS_NonNumericDay == <<"2", "0", "1", "8", " ", "W", "e", "e", "k", " ", "0", "3", " ", "e", "n", "d", "i", "n", "g", " ", "J", "a", "n", "u", "a", "r", "y", " ", "x", "x", ",", " ", "2", "0", "1", "8">>
WS_Total == <<"T", "o", "t", "a", "l">>
WS_HugeYear == <<"2", "0", "1", "8", " ", "W", "e", "e", "k", " ", "0", "1", " ", "e", "n", "d", "i", "n", "g", " ", "J", "a", "n", "u", "a", "r", "y", " ", "0", "6", ",", " ", "9", "9", "9", "9", "9", "9", "9", "9", "9", "9", "9">>
YF_2018 == <<"2", "0", "1", "8">>
YF_2025Provisional == <<"2", "0", "2", "5", " ", "(", "p", "r", "o", "v", "i", "s", "i", "o", "n", "a", "l", " ", "a", "n", "d", " ", "p", "a", "r", "t", "i", "a", "l", ")">>
YF_Blank == <<"n", "a", "n">>

RawRow(y, w, d) == [year |-> y, week |-> w, deaths |-> d]

\* well-formed rows (the week ends on a Saturday)
GoodRow2018 == RawRow(YF_2018, <<WS_Good2018>>, <<100>>)
GoodRow2025 == RawRow(YF_2025Provisional, <<WS_Good2025>>, <<200>>)

RawRows ==
    { GoodRow2018,
      GoodRow2025,
      RawRow(YF_2018, <<WS_Sunday>>, <<110>>),          \* date that is not a Saturday
      RawRow(YF_Blank, <<WS_Good2018>>, <<120>>),       \* year field without a 4-digit run
      RawRow(YF_2018, <<WS_BadMonth>>, <<130>>),        \* unknown month name
      RawRow(YF_2018, <<WS_Short>>, <<140>>),           \* missing tokens
      RawRow(YF_2018, <<WS_BadDay>>, <<150>>),          \* day outside the month
      RawRow(YF_2018, <<WS_NonNumericDay>>, <<160>>),   \* non-numeric day
      RawRow(YF_2018, <<WS_Total>>, <<170>>),           \* no "Week" in the week field
      RawRow(YF_2018, NoValue, <<180>>),                \* empty week field
      RawRow(YF_2018, <<WS_Good2018>>, NoValue),        \* empty deaths field
      RawRow(YF_2018, <<WS_HugeYear>>, <<190>>) }       \* year token above the C int range

MaxRawRows == 2

SeqsUpTo(S, n) == UNION {[1..k -> S] : k \in 0..n}

\* a source file is on disk
MortInit ==
    /\ rawFile \in SeqsUpTo(RawRows, MaxRawRows) \ {<<>>}
    /\ mortOut = <<>>
    /\ mpc = "input"

\* load_mortality_data(filepath, 'suicide') runs on the file
LoadMortalityData ==
    /\ mpc = "input"
    /\ mortOut' = load_mortality_data(rawFile, "suicide")
    /\ mpc' = "done"
    /\ UNCHANGED rawFile
    /\ UNCHANGED <<storeVars, mergeVars, weeklyVars, corrVars, auxVars>>

StoreOff ==
    /\ disk = [f \in ArtifactNames |-> Absent]
    /\ lastPersist = "partial"
    /\ pstage = "idle" /\ pfile = 0 /\ pwriting = FALSE /\ run = 0
    /\ diskAtStart = disk /\ failedIn = "none" /\ clock = 0
    /\ spc = "off" /\ page = "landing" /\ loading = <<>> /\ clean = FALSE
    /\ lookupAge = -1 /\ expiredAtStart = FALSE
    /\ ret = NoEntry /\ pdCache = NoEntry /\ ldCache = NoEntry /\ wkCache = NoTable

InitLoadMort == StoreOff /\ MortInit /\ MergeOff /\ WeeklyOff /\ CorrOff /\ AuxOff

NextLoadMort == LoadMortalityData

SpecLoadMort == InitLoadMort /\ [][NextLoadMort]_vars

\* C8 (as stated): every row load_mortality_data returns has
\* week_start = week_end - 6 days and a week_end that is a Saturday.
C8_WeekEndsOnSaturday ==
    (mpc = "done" /\ ~mortOut.raised) =>
        \A i \in 1..Len(mortOut.rows) :
            /\ mortOut.rows[i].week_start = mortOut.rows[i].week_end - 6
            /\ Weekday(mortOut.rows[i].week_end) = Saturday

\* the rows of the file that are well-formed: a week string of the expected
\* shape, a year field with a 4-digit run, a death count
WellFormedRows(file) ==
    SelectSeq(file, LAMBDA r :
        /\ r.week # NoValue
        /\ parse_week_string(r.week[1]).status = "ok"
        /\ ExtractYear(r.year).ok
        /\ r.deaths # NoValue)

\* C10 (as stated): on a readable file load_mortality_data never aborts because
\* of a row whose week string or year field is malformed; it returns one row
\* for each well-formed row of the file.
C10_BadRowNeverAborts ==
    mpc = "done" =>
        /\ ~mortOut.raised
        /\ Len(mortOut.rows) = Len(WellFormedRows(rawFile))

\* ---------------------------------------------------------------------------
\* load_all_mortality_datasets
\* ---------------------------------------------------------------------------
\* the outcome labels of the datasets list, in its order
DatasetLabels == <<"suicide", "violence", "overdose", "cardiovascular">>

\* the join columns
KeyOf(r) == <<r.year, r.week_num, r.week_start, r.week_end>>

\* pd.merge(left, right, on=[year, week_num, week_start, week_end], how='inner'):
\* one row for every pair of a left row and a right row with equal keys
RECURSIVE InnerMerge(_, _)
InnerMerge(left, right) ==
    IF left = <<>> THEN <<>>
    ELSE LET l == Head(left)
             matches == SelectSeq(right, LAMBDA r : KeyOf(r) = KeyOf(l))
             joined == [i \in 1..Len(matches) |->
                          [l EXCEPT !.deaths = l.deaths @@ matches[i].deaths]]
         IN joined \o InnerMerge(Tail(left), right)

\* sort_values('week_end'): rows with equal week_end keep their order
RECURSIVE InsertByWeekEnd(_, _)
InsertByWeekEnd(sorted, r) ==
    IF sorted = <<>> THEN <<r>>
    ELSE IF Head(sorted).week_end <= r.week_end
           THEN <<Head(sorted)>> \o InsertByWeekEnd(Tail(sorted), r)
           ELSE <<r>> \o sorted

RECURSIVE SortByWeekEnd(_)
SortByWeekEnd(t) ==
    IF t = <<>> THEN <<>>
    ELSE With(SortByWeekEnd(SubSeq(t, 1, Len(t) - 1)),
              LAMBDA sorted : InsertByWeekEnd(sorted, t[Len(t)]))

RECURSIVE MergeRemaining(_, _, _)
\* the loop over datasets[1:]
MergeRemaining(acc, loaded, k) ==
    IF k > Len(loaded) THEN acc
    ELSE With(InnerMerge(acc, loaded[k].rows),
              LAMBDA joined : MergeRemaining(joined, loaded, k + 1))

\* load_all_mortality_datasets(raw_dir) on the four source files
load_all_mortality_datasets(files) ==
    With(MapSeq(LAMBDA k : load_mortality_data(files[k], DatasetLabels[k]), <<1, 2, 3, 4>>),
         LAMBDA loaded :
            IF \E k \in 1..Len(DatasetLabels) : loaded[k].raised THEN Raised
            ELSE With(MergeRemaining(loaded[1].rows, loaded, 2),
                      LAMBDA joined : [raised |-> FALSE, rows |-> SortByWeekEnd(joined)]))

MaxMergeRows == 2

\* the four source files are on disk; each holds well-formed rows, possibly
\* the same week on more than one row, possibly not all weeks
MergeInit ==
    /\ rawFiles \in [1..Len(DatasetLabels) -> SeqsUpTo({GoodRow2018, GoodRow2025}, MaxMergeRows)]
    /\ tables = <<>>
    /\ merged = <<>>
    /\ gpc = "input"

\* load_all_mortality_datasets(raw_dir) runs
LoadAllMortalityDatasets ==
    /\ gpc = "input"
    /\ \E out \in {load_all_mortality_datasets(rawFiles)} :
          /\ gpc' = IF out.raised THEN "failed" ELSE "done"
          /\ merged' = out.rows
    /\ tables' = MapSeq(LAMBDA k : load_mortality_data(rawFiles[k], DatasetLabels[k]).rows,
                        <<1, 2, 3, 4>>)
    /\ UNCHANGED rawFiles
    /\ UNCHANGED <<storeVars, mortVars, weeklyVars, corrVars, auxVars>>

InitMerge == StoreOff /\ MortOff /\ MergeInit /\ WeeklyOff /\ CorrOff /\ AuxOff

NextMerge == LoadAllMortalityDatasets

SpecMerge == InitMerge /\ [][NextMerge]_vars

\* C5 (as stated): the merged table holds only keys that occur in all four
\* outcome tables, and it has at most as many rows as the smallest of them.
C5_MergedWithinSmallestTable ==
    gpc = "done" =>
        /\ \A i \in 1..Len(merged) : \A k \in 1..Len(tables) :
              \E j \in 1..Len(tables[k]) : KeyOf(tables[k][j]) = KeyOf(merged[i])
        /\ \A k \in 1..Len(tables) : Len(merged) <= Len(tables[k])

\* ---------------------------------------------------------------------------
\* aggregate_geomagnetic_weekly
\* Timestamps are hours since 0001-01-01 00:00 less 24 (ordinal * 24 + hour);
\* Kp is held in thirds (Kp 5.0 is 15), as the index is recorded.
\* A mean is held as the pair <<sum, count>>.
\* ---------------------------------------------------------------------------
HoursPerDay == 24

\* a date (ordinal) as a timestamp at midnight
AtMidnight(ord) == ord * HoursPerDay

\* Kp >= 5, >= 6, >= 7 in thirds
Kp5 == 15
Kp6 == 18
Kp7 == 21

RECURSIVE SumOf(_, _)
SumOf(Op(_), s) == IF s = <<>> THEN 0 ELSE Op(Head(s)) + SumOf(Op, Tail(s))

RECURSIVE MaxOf(_, _)
\* maximum of Op over a non-empty sequence
MaxOf(Op(_), s) ==
    IF Len(s) = 1 THEN Op(s[1])
    ELSE LET rest == MaxOf(Op, Tail(s))
         IN IF Op(Head(s)) >= rest THEN Op(Head(s)) ELSE rest

CountOf(Test(_), s) == Len(SelectSeq(s, Test))

\* (mutant) the window ends before week_end + 1 day
WeekGeoOpenEnd(geo, mort_row) ==
    SelectSeq(geo, LAMBDA g :
        /\ g.datetime >= AtMidnight(mort_row.week_start)
        /\ g.datetime < AtMidnight(mort_row.week_end + 1))

\* the geomagnetic rows selected for a mortality week:
\* week_start <= datetime <= week_end + timedelta(days=1)
WeekGeo(geo, mort_row) ==
    SelectSeq(geo, LAMBDA g :
        /\ g.datetime >= AtMidnight(mort_row.week_start)
        /\ g.datetime <= AtMidnight(mort_row.week_end + 1))

\* the weekly_stats dict built for one mortality week from its measurements
WeeklyStats(mort_row, week_geo) ==
    [year |-> mort_row.year,
     week_num |-> mort_row.week_num,
     week_start |-> mort_row.week_start,
     week_end |-> mort_row.week_end,
     deaths |-> mort_row.deaths,
     weekly_mean_Kp |-> <<SumOf(LAMBDA g : g.Kp, week_geo), Len(week_geo)>>,
     weekly_mean_ap |-> <<SumOf(LAMBDA g : g.ap, week_geo), Len(week_geo)>>,
     weekly_sum_ap |-> SumOf(LAMBDA g : g.ap, week_geo),
     weekly_max_Kp |-> MaxOf(LAMBDA g : g.Kp, week_geo),
     weekly_max_ap |-> MaxOf(LAMBDA g : g.ap, week_geo),
     storm_count_Kp5 |-> CountOf(LAMBDA g : g.Kp >= Kp5, week_geo),
     storm_count_Kp6 |-> CountOf(LAMBDA g : g.Kp >= Kp6, week_geo),
     storm_count_Kp7 |-> CountOf(LAMBDA g : g.Kp >= Kp7, week_geo)]

RECURSIVE WeeklyData(_, _)
\* the loop over mort_df.iterrows(): weeks without measurements are skipped
WeeklyData(geo, mort) ==
    IF mort = <<>> THEN <<>>
    ELSE LET week_geo == WeekGeo(geo, Head(mort))
         IN (IF Len(week_geo) = 0 THEN <<>> ELSE <<WeeklyStats(Head(mort), week_geo)>>)
            \o WeeklyData(geo, Tail(mort))

lag_vars == <<"weekly_mean_Kp", "weekly_mean_ap", "weekly_sum_ap", "weekly_max_Kp",
              "storm_count_Kp5">>

\* f'{var}_lag1' and f'{var}_lag2'
Lag1Col ==
    [weekly_mean_Kp |-> "weekly_mean_Kp_lag1", weekly_mean_ap |-> "weekly_mean_ap_lag1",
     weekly_sum_ap |-> "weekly_sum_ap_lag1", weekly_max_Kp |-> "weekly_max_Kp_lag1",
     storm_count_Kp5 |-> "storm_count_Kp5_lag1"]

Lag2Col ==
    [weekly_mean_Kp |-> "weekly_mean_Kp_lag2", weekly_mean_ap |-> "weekly_mean_ap_lag2",
     weekly_sum_ap |-> "weekly_sum_ap_lag2", weekly_max_Kp |-> "weekly_max_Kp_lag2",
     storm_count_Kp5 |-> "storm_count_Kp5_lag2"]

\* (mutant) the column is shifted the other way: the value of a later week
ShiftForward(table, col, k, i) ==
    IF i + k >= 1 /\ i + k <= Len(table) THEN <<table[i + k][col]>> ELSE NoValue

\* Series.shift(k) at row i: the value k rows earlier, missing when there is none
Shift(table, col, k, i) ==
    IF i - k >= 1 /\ i - k <= Len(table) THEN <<table[i - k][col]>> ELSE NoValue

RECURSIVE LagColumns(_, _, _)
\* the lag columns of row i for lag_vars[n..]
LagColumns(table, i, n) ==
    IF n > Len(lag_vars) THEN <<>>
    ELSE (Lag1Col[lag_vars[n]] :> Shift(table, lag_vars[n], 1, i))
         @@ (Lag2Col[lag_vars[n]] :> Shift(table, lag_vars[n], 2, i))
         @@ LagColumns(table, i, n + 1)

RECURSIVE WithLags(_, _)
\* the table with its lag columns, rows i..
WithLags(table, i) ==
    IF i > Len(table) THEN <<>>
    ELSE <<table[i] @@ LagColumns(table, i, 1)>> \o WithLags(table, i + 1)

\* dropna(subset=[f'{lag_vars[0]}_lag1', f'{lag_vars[0]}_lag2'])
DropNaLags(table) ==
    SelectSeq(table, LAMBDA r :
        r[Lag1Col[lag_vars[1]]] # NoValue /\ r[Lag2Col[lag_vars[1]]] # NoValue)

\* aggregate_geomagnetic_weekly(geo_df, mort_df); sorted is the weekly table
\* after sort_values('week_end'), before the lag columns are added
aggregate_geomagnetic_weekly(geo, mort) ==
    LET weekly_data == WeeklyData(geo, mort)
        sorted == SortByWeekEnd(weekly_data)
    IN IF weekly_data = <<>>
         THEN \* pd.DataFrame([]) has no week_end column: sort_values raises
              [raised |-> TRUE, sorted |-> <<>>, rows |-> <<>>]
         ELSE [raised |-> FALSE, sorted |-> sorted,
               rows |-> DropNaLags(WithLags(sorted, 1))]

\* ---------------------------------------------------------------------------
\* compute_summary_stats: week counts and storm / quiet comparison
\* ---------------------------------------------------------------------------
\* (mutant) a week counts as a storm week only from two Kp>=5 intervals on
StormWeeksFromTwo(table) == SelectSeq(table, LAMBDA r : r.storm_count_Kp5 > 1)

\* weekly_df[weekly_df['storm_count_Kp5'] > 0]
StormWeeks(table) == SelectSeq(table, LAMBDA r : r.storm_count_Kp5 > 0)

\* weekly_df[weekly_df['storm_count_Kp5'] == 0]
NoStormWeeks(table) == SelectSeq(table, LAMBDA r : r.storm_count_Kp5 = 0)

\* df[col].mean() of a death column, as <<sum, count>>
DeathsMean(table, outcome) == <<SumOf(LAMBDA r : r.deaths[outcome], table), Len(table)>>

\* the outcome_comparisons entry of one outcome; None is NoValue
OutcomeComparison(storm, quiet, outcome) ==
    LET s == DeathsMean(storm, outcome)
        q == DeathsMean(quiet, outcome)
    IN [storm_weeks_mean |-> IF Len(storm) > 0 THEN <<s>> ELSE NoValue,
        no_storm_weeks_mean |-> IF Len(quiet) > 0 THEN <<q>> ELSE NoValue,
        difference |-> IF Len(storm) > 0 /\ Len(quiet) > 0
                         THEN <<<<s[1] * q[2] - q[1] * s[2], s[2] * q[2]>>>>
                         ELSE NoValue]

MeasurementsPerWeek == 56

\* compute_summary_stats(weekly_df, correlation_df): the counts and comparisons
compute_summary_stats(table) ==
    LET storm_weeks == StormWeeks(table)
        no_storm_weeks == NoStormWeeks(table)
    IN IF table = <<>>
         THEN \* int(weekly_df[col].min()) of an empty column raises
              [raised |-> TRUE]
         ELSE [raised |-> FALSE,
               n_weeks |-> Len(table),
               n_measurements |-> Len(table) * MeasurementsPerWeek,
               storm_comparison |->
                   [storm_weeks_count |-> Len(storm_weeks),
                    no_storm_weeks_count |-> Len(no_storm_weeks)],
               outcome_comparisons |->
                   [o \in {DatasetLabels[k] : k \in 1..Len(DatasetLabels)} |->
                       OutcomeComparison(storm_weeks, no_storm_weeks, o)]]

\* ---------------------------------------------------------------------------
\* Pages that show the storm / quiet comparison of the summary record.
\* A section result is [page, raised, items]: items are the statistics put
\* on screen, each "value", "zero" or "unavailable".
\* ---------------------------------------------------------------------------
OutcomeKeys == {DatasetLabels[k] : k \in 1..Len(DatasetLabels)}

\* an f-string field f"{v:.0f}" or abs(v): None raises TypeError
Formats(v) == v # NoValue

\* how a formatted mean or difference <<sum, count>> reads on screen
Display(v) == IF v[1][1] = 0 THEN "zero" ELSE "value"

\* truth value of a mean in an if: None and 0.0 are false
Truthy(v) == v # NoValue /\ v[1][1] # 0

SectionRaised(p) == [page |-> p, raised |-> TRUE, items |-> <<>>]

\* Overview page, section "Storm vs Quiet Weeks": three metrics, then the bar chart
OverviewStormSection(s, o) ==
    LET comp_data == s.outcome_comparisons[o]
    IN IF ~Formats(comp_data.no_storm_weeks_mean) THEN SectionRaised("overview")
       ELSE IF ~Formats(comp_data.storm_weeks_mean) THEN SectionRaised("overview")
       ELSE IF ~Formats(comp_data.difference) THEN SectionRaised("overview")
       ELSE [page |-> "overview", raised |-> FALSE,
             items |-> <<Display(comp_data.no_storm_weeks_mean),
                         Display(comp_data.storm_weeks_mean),
                         Display(comp_data.difference)>>]

\* landing page: the key finding text, then the visual summary
LandingStormSections(s, o, in_strongest) ==
    LET comp_data == s.outcome_comparisons[o]
        \* the bar chart and its narrative are shown only when both means are truthy
        visual == IF Truthy(comp_data.storm_weeks_mean) /\ Truthy(comp_data.no_storm_weeks_mean)
                    THEN <<Display(comp_data.storm_weeks_mean),
                           Display(comp_data.no_storm_weeks_mean),
                           Display(comp_data.difference)>>
                    ELSE <<>>
    IN IF in_strongest
         THEN IF ~Formats(comp_data.difference) THEN SectionRaised("landing")
              ELSE [page |-> "landing", raised |-> FALSE,
                    items |-> <<Display(comp_data.difference)>> \o visual]
         ELSE \* st.warning("No significant correlation data available ...")
              [page |-> "landing", raised |-> FALSE, items |-> visual]

\* ---- inputs ----
NWeeks == 4

\* the Saturday that ends the first candidate week (2018 Week 01)
FirstWeekEnd == ToOrdinal(2018, 1, 6)

CandidateWeekEnd(k) == FirstWeekEnd + 7 * (k - 1)

\* the merged mortality row of candidate week k
MortRow(k) ==
    [year |-> 2018, week_num |-> k,
     week_start |-> CandidateWeekEnd(k) - 6, week_end |-> CandidateWeekEnd(k),
     deaths |-> [suicide |-> 900 + 7 * k, violence |-> 400 - 3 * k,
                 overdose |-> 1500 + k * k, cardiovascular |-> 9000 - 11 * k]]

Measurement(t, kp, a) == [datetime |-> t, Kp |-> kp, ap |-> a]

\* the measurements of candidate week k under a pattern:
\*   "none"     no measurement in the week
\*   "quiet"    one quiet measurement on Wednesday 12:00
\*   "storms"   two storm measurements on Wednesday 12:00 and 15:00
\*   "boundary" one storm measurement on the Sunday 00:00 that starts the week
GeoPatterns == {"none", "quiet", "storms", "boundary"}

PatternRows(k, pat) ==
    LET sunday == AtMidnight(CandidateWeekEnd(k) - 6)
    IN CASE pat = "none" -> <<>>
         [] pat = "quiet" -> <<Measurement(sunday + 3 * HoursPerDay + 12, 6, 7)>>
         [] pat = "storms" -> <<Measurement(sunday + 3 * HoursPerDay + 12, 16, 56),
                                Measurement(sunday + 3 * HoursPerDay + 15, 21, 132)>>
         [] pat = "boundary" -> <<Measurement(sunday, 15, 48)>>

RECURSIVE GeoRows(_, _)
GeoRows(pats, k) ==
    IF k > Len(pats) THEN <<>> ELSE PatternRows(k, pats[k]) \o GeoRows(pats, k + 1)

RECURSIVE MortRows(_, _)
\* the rows of the candidate weeks in the set present, ascending by week_end
MortRows(present, k) ==
    IF k > NWeeks THEN <<>>
    ELSE (IF k \in present THEN <<MortRow(k)>> ELSE <<>>) \o MortRows(present, k + 1)

\* main() has loaded the geomagnetic file and the merged mortality table
WeeklyInit ==
    /\ \E present \in SUBSET (1..NWeeks) : mort_df = MortRows(present, 1)
    /\ \E pats \in [1..NWeeks -> GeoPatterns] : geo_df = GeoRows(pats, 1)
    /\ prelag = <<>>
    /\ weekly_df = <<>>
    /\ summary = <<>>
    /\ shown = <<>>
    /\ wpc = "input"

\* weekly_df = aggregate_geomagnetic_weekly(geo_df, mort_df)
AggregateGeomagneticWeekly ==
    /\ wpc = "input"
    /\ LET out == aggregate_geomagnetic_weekly(geo_df, mort_df)
       IN /\ wpc' = IF out.raised THEN "failed" ELSE "aggregated"
          /\ prelag' = out.sorted
          /\ weekly_df' = out.rows
    /\ UNCHANGED <<mort_df, geo_df, summary, shown>>
    /\ UNCHANGED <<storeVars, mortVars, mergeVars, corrVars, auxVars>>

\* summary_stats = compute_summary_stats(weekly_df, correlation_df)
ComputeSummaryStats ==
    /\ wpc = "aggregated"
    /\ LET out == compute_summary_stats(weekly_df)
       IN /\ wpc' = IF out.raised THEN "failed" ELSE "summarised"
          /\ summary' = out
    /\ UNCHANGED <<mort_df, geo_df, prelag, weekly_df, shown>>
    /\ UNCHANGED <<storeVars, mortVars, mergeVars, corrVars, auxVars>>

\* the Overview page is evaluated with the outcome o selected
RenderOverview(o) ==
    /\ wpc = "summarised"
    /\ shown' = OverviewStormSection(summary, o)
    /\ wpc' = "rendered"
    /\ UNCHANGED <<mort_df, geo_df, prelag, weekly_df, summary>>
    /\ UNCHANGED <<storeVars, mortVars, mergeVars, corrVars, auxVars>>

\* the landing page is evaluated with the outcome o selected; in_strongest
\* tells whether strongest_correlations has an entry for the outcome
RenderLanding(o, in_strongest) ==
    /\ wpc = "summarised"
    /\ shown' = LandingStormSections(summary, o, in_strongest)
    /\ wpc' = "rendered"
    /\ UNCHANGED <<mort_df, geo_df, prelag, weekly_df, summary>>
    /\ UNCHANGED <<storeVars, mortVars, mergeVars, corrVars, auxVars>>

InitWeekly == StoreOff /\ MortOff /\ MergeOff /\ WeeklyInit /\ CorrOff /\ AuxOff

NextWeekly ==
    \/ AggregateGeomagneticWeekly
    \/ ComputeSummaryStats
    \/ \E o \in OutcomeKeys : RenderOverview(o)
    \/ \E o \in OutcomeKeys : \E in_strongest \in BOOLEAN : RenderLanding(o, in_strongest)

SpecWeekly == InitWeekly /\ [][NextWeekly]_vars

\* the columns a row has before the lag columns are added
BaseColumns == DOMAIN MortRow(1) \cup
    {"weekly_mean_Kp", "weekly_mean_ap", "weekly_sum_ap", "weekly_max_Kp", "weekly_max_ap",
     "storm_count_Kp5", "storm_count_Kp6", "storm_count_Kp7"}

\* C6: with the pre-lag rows sorted ascending by week_end, the final weekly
\* table is the pre-lag table without its first two rows, and in the row that
\* was pre-lag row i each lag1 value is the metric of pre-lag row i-1 and each
\* lag2 value the metric of pre-lag row i-2.
C6_LagsAreRowShifts ==
    wpc \in {"aggregated", "summarised"} =>
        /\ \A i \in 1..(Len(prelag) - 1) : prelag[i].week_end <= prelag[i + 1].week_end
        /\ Len(weekly_df) = IF Len(prelag) >= 2 THEN Len(prelag) - 2 ELSE 0
        /\ \A j \in 1..Len(weekly_df) :
              /\ \A c \in BaseColumns : weekly_df[j][c] = prelag[j + 2][c]
              /\ \A n \in 1..Len(lag_vars) :
                    /\ weekly_df[j][Lag1Col[lag_vars[n]]] = <<prelag[j + 1][lag_vars[n]]>>
                    /\ weekly_df[j][Lag2Col[lag_vars[n]]] = <<prelag[j][lag_vars[n]]>>

C6_Witness ==
    /\ wpc = "aggregated"
    /\ Len(prelag) = 4
    /\ Len(weekly_df) = 2
    /\ weekly_df[2].weekly_mean_Kp_lag1 # weekly_df[2].weekly_mean_Kp_lag2
    /\ weekly_df[2].weekly_mean_Kp_lag1 # <<weekly_df[2].weekly_mean_Kp>>

\* C9: compute_summary_stats classifies every week exactly once: a week with
\* storm_count_Kp5 = 0 is a quiet week, a week with storm_count_Kp5 >= 1 adds
\* exactly 1 to storm_weeks_count, and the two counts add up to n_weeks.
C9_WeeksClassifiedOnce ==
    wpc = "summarised" =>
        /\ summary.n_weeks = Len(weekly_df)
        /\ summary.storm_comparison.storm_weeks_count =
              Cardinality({i \in 1..Len(weekly_df) : weekly_df[i].storm_count_Kp5 >= 1})
        /\ summary.storm_comparison.no_storm_weeks_count =
              Cardinality({i \in 1..Len(weekly_df) : weekly_df[i].storm_count_Kp5 = 0})
        /\ summary.storm_comparison.storm_weeks_count
              + summary.storm_comparison.no_storm_weeks_count = summary.n_weeks

C9_Witness ==
    /\ wpc = "summarised"
    /\ summary.n_weeks = 2
    /\ summary.storm_comparison.storm_weeks_count = 1
    /\ summary.storm_comparison.no_storm_weeks_count = 1
    /\ \E i \in 1..Len(weekly_df) : weekly_df[i].storm_count_Kp5 >= 2

\* a group of the storm / quiet split is empty
GroupEmpty ==
    \/ summary.storm_comparison.storm_weeks_count = 0
    \/ summary.storm_comparison.no_storm_weeks_count = 0

\* C11 (as stated): when the weekly table has no storm weeks or no quiet
\* weeks, the affected group mean and the difference are absent in the
\* summary record, and a page that reads them is evaluated without failing
\* and shows no statistic of the comparison as a number (zero included).
C11_EmptyGroupShownUnavailable ==
    (wpc = "rendered" /\ GroupEmpty) =>
        /\ \A o \in OutcomeKeys :
              /\ summary.storm_comparison.storm_weeks_count = 0
                    => summary.outcome_comparisons[o].storm_weeks_mean = NoValue
              /\ summary.storm_comparison.no_storm_weeks_count = 0
                    => summary.outcome_comparisons[o].no_storm_weeks_mean = NoValue
              /\ summary.outcome_comparisons[o].difference = NoValue
        /\ ~shown.raised
        /\ \A i \in 1..Len(shown.items) : shown.items[i] = "unavailable"

\* ---------------------------------------------------------------------------
\* compute_correlations
\* A statistic is [nan, v]: r in thousandths, p in ten-thousandths, r squared
\* in millionths; nan = TRUE is the NaN scipy returns for a constant column.
\* ---------------------------------------------------------------------------
\* the metrics list (the display names write ">=" as one character in the source)
metrics ==
    << [col |-> "weekly_mean_Kp", name |-> "Weekly Mean Kp", lag |-> "same-week"],
       [col |-> "weekly_mean_ap", name |-> "Weekly Mean Ap", lag |-> "same-week"],
       [col |-> "weekly_sum_ap", name |-> "Weekly Sum Ap", lag |-> "same-week"],
       [col |-> "weekly_max_Kp", name |-> "Weekly Max Kp", lag |-> "same-week"],
       [col |-> "storm_count_Kp5", name |-> "Storm Count (Kp>=5)", lag |-> "same-week"],
       [col |-> "weekly_mean_Kp_lag1", name |-> "Weekly Mean Kp (lag-1)", lag |-> "lag-1"],
       [col |-> "weekly_mean_ap_lag1", name |-> "Weekly Mean Ap (lag-1)", lag |-> "lag-1"],
       [col |-> "weekly_sum_ap_lag1", name |-> "Weekly Sum Ap (lag-1)", lag |-> "lag-1"],
       [col |-> "weekly_max_Kp_lag1", name |-> "Weekly Max Kp (lag-1)", lag |-> "lag-1"],
       [col |-> "storm_count_Kp5_lag1", name |-> "Storm Count Kp>=5 (lag-1)", lag |-> "lag-1"] >>

outcomes ==
    << [col |-> "deaths_suicide", name |-> "Suicide", key |-> "suicide"],
       [col |-> "deaths_violence", name |-> "Violence/Assault", key |-> "violence"],
       [col |-> "deaths_overdose", name |-> "Overdose", key |-> "overdose"],
       [col |-> "deaths_cardiovascular", name |-> "Cardiovascular", key |-> "cardiovascular"] >>

Num(x) == [nan |-> FALSE, v |-> x]
NaN == [nan |-> TRUE, v |-> 0]

\* the 0.05 of `p < 0.05`, in ten-thousandths
Alpha == 500

\* r**2
Square(r) == IF r.nan THEN NaN ELSE Num(r.v * r.v)

\* (mutant) p <= 0.05
SignificantInclusive(p) == ~p.nan /\ p.v <= Alpha

\* p < 0.05 (False for NaN)
Significant(p) == ~p.nan /\ p.v < Alpha

\* values stats.pearsonr / stats.spearmanr can return as (r, p)
StatSamples ==
    << [r |-> Num(0), p |-> Num(10000)],
       [r |-> Num(230), p |-> Num(1)],
       [r |-> Num(-160), p |-> Num(499)],
       [r |-> Num(100), p |-> Num(500)],
       [r |-> Num(-90), p |-> Num(501)],
       [r |-> NaN, p |-> NaN] >>

\* stats.pearsonr(weekly_df[metric_col], weekly_df[outcome_col]) for the weekly
\* table scen: the library's value, which differs from column pair to column pair
pearsonr(scen, m, o) == StatSamples[((scen.variant + 3 * o + m) % Len(StatSamples)) + 1]

\* stats.spearmanr(weekly_df[metric_col], weekly_df[outcome_col])
spearmanr(scen, m, o) == StatSamples[((scen.variant + o + 5 * m) % Len(StatSamples)) + 1]

\* the dict appended to results for outcome o and metric m
CorrelationRow(scen, o, m) ==
    LET pr == pearsonr(scen, m, o)
        sr == spearmanr(scen, m, o)
    IN [outcome |-> outcomes[o].key,
        outcome_label |-> outcomes[o].name,
        metric |-> metrics[m].name,
        metric_col |-> metrics[m].col,
        lag |-> metrics[m].lag,
        pearson_r |-> pr.r,
        pearson_p |-> pr.p,
        spearman_r |-> sr.r,
        spearman_p |-> sr.p,
        r_squared |-> Square(pr.r),
        significant |-> Significant(pr.p)]

MetricIndexes == <<1, 2, 3, 4, 5, 6, 7, 8, 9, 10>>

\* one pass of `for metric_col, metric_name, lag in metrics: if lag == kind`
RowsOfKind(scen, o, kind) ==
    MapSeq(LAMBDA m : CorrelationRow(scen, o, m),
           SelectSeq(MetricIndexes, LAMBDA m : metrics[m].lag = kind))

RECURSIVE OutcomeLoop(_, _)
\* the loop over outcomes: the same-week pass, then the lag-1 pass
OutcomeLoop(scen, o) ==
    IF o > Len(outcomes) THEN <<>>
    ELSE RowsOfKind(scen, o, "same-week") \o RowsOfKind(scen, o, "lag-1")
         \o OutcomeLoop(scen, o + 1)

\* compute_correlations(weekly_df): pearsonr raises for fewer than 2 rows
compute_correlations(scen) ==
    IF scen.n < 2 THEN [raised |-> TRUE, rows |-> <<>>]
    ELSE [raised |-> FALSE, rows |-> OutcomeLoop(scen, 1)]

MaxCorrWeeks == 3
MaxVariant == 17

\* main() has built the weekly table
CorrInit ==
    /\ cscen \in [n : 0..MaxCorrWeeks, variant : 0..MaxVariant]
    /\ results = <<>>
    /\ cpc = "input"

\* correlation_df = compute_correlations(weekly_df)
ComputeCorrelations ==
    /\ cpc = "input"
    /\ LET out == compute_correlations(cscen)
       IN /\ cpc' = IF out.raised THEN "failed" ELSE "done"
          /\ results' = out.rows
    /\ UNCHANGED cscen
    /\ UNCHANGED <<storeVars, mortVars, mergeVars, weeklyVars, auxVars>>

InitCorr == StoreOff /\ MortOff /\ MergeOff /\ WeeklyOff /\ CorrInit /\ AuxOff

NextCorr == ComputeCorrelations

SpecCorr == InitCorr /\ [][NextCorr]_vars

\* the 10 metric/timing combinations: 5 same-week columns, 5 lag-1 columns
ExpectedCombos ==
    {<<lag_vars[n], "same-week">> : n \in 1..Len(lag_vars)}
    \cup {<<Lag1Col[lag_vars[n]], "lag-1">> : n \in 1..Len(lag_vars)}

ExpectedOutcomes == {"suicide", "violence", "overdose", "cardiovascular"}

\* C7: when compute_correlations completes, the correlation table has exactly
\* 40 rows, exactly one for each of the 4 outcomes and each of the 10
\* metric/timing combinations, and in every row r_squared is the square of
\* pearson_r and significant is true exactly when pearson_p < 0.05.
C7_CorrelationTableComplete ==
    cpc = "done" =>
        /\ Len(results) = 40
        /\ \A o \in ExpectedOutcomes : \A c \in ExpectedCombos :
              Cardinality({i \in 1..Len(results) :
                              /\ results[i].outcome = o
                              /\ results[i].metric_col = c[1]
                              /\ results[i].lag = c[2]}) = 1
        /\ \A i \in 1..Len(results) :
              /\ results[i].r_squared.nan = results[i].pearson_r.nan
              /\ ~results[i].pearson_r.nan =>
                    results[i].r_squared.v = results[i].pearson_r.v * results[i].pearson_r.v
              /\ results[i].significant =
                    (~results[i].pearson_p.nan /\ results[i].pearson_p.v < 500)

C7_Witness ==
    /\ cpc = "done"
    /\ Len(results) = 40
    /\ \E i \in 1..Len(results) : results[i].significant /\ results[i].pearson_p.v = 499
    /\ \E i \in 1..Len(results) : ~results[i].significant /\ results[i].pearson_p.v = 500
    /\ \E i \in 1..Len(results) : results[i].pearson_r.nan

\* ---------------------------------------------------------------------------
\* components/statistics.py: compare_groups and compute_seasonal_adjustment
\* Values are whole numbers (death counts); a mean or a variance is an exact
\* fraction <<numerator, denominator>> with a positive denominator. A float
\* result is [nan, v]: nan = TRUE is NaN. A standard deviation is held as
\* its square.
\* ---------------------------------------------------------------------------
Frac(x) == [nan |-> FALSE, v |-> x]
NotANumber == [nan |-> TRUE, v |-> <<0, 1>>]

RECURSIVE Gcd(_, _)
Gcd(a, b) == IF b = 0 THEN a ELSE Gcd(b, a % b)

\* the fraction in lowest terms
FracReduce(a) ==
    LET g == Gcd(IF a[1] < 0 THEN 0 - a[1] ELSE a[1], a[2])
    IN <<a[1] \div g, a[2] \div g>>

FracAdd(a, b) == FracReduce(<<a[1] * b[2] + b[1] * a[2], a[2] * b[2]>>)
FracSub(a, b) == FracReduce(<<a[1] * b[2] - b[1] * a[2], a[2] * b[2]>>)
FracEq(a, b) == a[1] * b[2] = b[1] * a[2]
FracSign(a) == IF a[1] > 0 THEN 1 ELSE IF a[1] < 0 THEN -1 ELSE 0

\* x - y and x + y on floats: NaN when an operand is NaN
FloatSub(x, y) == IF x.nan \/ y.nan THEN NotANumber ELSE Frac(FracSub(x.v, y.v))
FloatAdd(x, y) == IF x.nan \/ y.nan THEN NotANumber ELSE Frac(FracAdd(x.v, y.v))

\* k * x for a whole number k: NaN when x is NaN, also for k = 0
FloatScale(k, x) == IF x.nan THEN NotANumber ELSE Frac(<<k * x.v[1], x.v[2]>>)

RECURSIVE Total(_)
Total(vals) == IF vals = <<>> THEN 0 ELSE Head(vals) + Total(Tail(vals))

RECURSIVE TotalSquares(_)
TotalSquares(vals) ==
    IF vals = <<>> THEN 0 ELSE Head(vals) * Head(vals) + TotalSquares(Tail(vals))

\* Series.mean(): NaN for an empty series
SeriesMean(vals) ==
    IF vals = <<>> THEN NotANumber ELSE Frac(<<Total(vals), Len(vals)>>)

\* Series.std() ** 2 (sample variance, ddof = 1): NaN below two values
SeriesVar(vals) ==
    LET n == Len(vals)
    IN IF n < 2 THEN NotANumber
       ELSE Frac(<<n * TotalSquares(vals) - Total(vals) * Total(vals), n * (n - 1)>>)

\* the value column of the rows of a group
ColumnOf(rows, col) == [i \in 1..Len(rows) |-> rows[i][col]]

\* scipy.stats.ttest_ind(high_group, low_group): NaN for an empty sample;
\* otherwise the value SciPy computes, which is outside this model
TTestInd(high, low) ==
    IF high = <<>> \/ low = <<>> THEN [nan |-> TRUE, v |-> "nan"]
    ELSE [nan |-> FALSE, v |-> "scipy"]

\* pooled_std ** 2 before the square root: a NaN numerator stays NaN, also
\* over a zero denominator
PooledVar(high_var, high_n, low_var, low_n) ==
    LET numerator == FloatAdd(FloatScale(high_n - 1, high_var), FloatScale(low_n - 1, low_var))
    IN IF numerator.nan THEN NotANumber
       ELSE Frac(<<numerator.v[1], numerator.v[2] * (high_n + low_n - 2)>>)

\* Cohen's d as [nan, sign, sq]: its sign and its square
ZeroEffect == [nan |-> FALSE, sign |-> 0, sq |-> <<0, 1>>]

\* (mutant) the division without the guard: x / 0 is infinite or NaN
CohensDUnguarded(difference, pooled_var) ==
    IF difference.nan \/ pooled_var.nan \/ FracSign(pooled_var.v) = 0
      THEN [nan |-> TRUE, sign |-> 0, sq |-> <<0, 1>>]
      ELSE [nan |-> FALSE, sign |-> FracSign(difference.v),
            sq |-> <<difference.v[1] * difference.v[1] * pooled_var.v[2],
                     difference.v[2] * difference.v[2] * pooled_var.v[1]>>]

\* cohens_d = (high mean - low mean) / pooled_std if pooled_std > 0 else 0;
\* NaN > 0 is False
CohensD(difference, pooled_var) ==
    IF ~pooled_var.nan /\ FracSign(pooled_var.v) > 0
      THEN [nan |-> FALSE, sign |-> FracSign(difference.v),
            sq |-> <<difference.v[1] * difference.v[1] * pooled_var.v[2],
                     difference.v[2] * difference.v[2] * pooled_var.v[1]>>]
      ELSE ZeroEffect

\* df[df[group_col] >= threshold] and df[df[group_col] < threshold];
\* the threshold is held doubled (a median can fall between two values)
\* (mutant) the high group takes only values above the threshold
HighGroupStrict(df, group_col, threshold2) == SelectSeq(df, LAMBDA r : 2 * r[group_col] > threshold2)

HighGroup(df, group_col, threshold2) == SelectSeq(df, LAMBDA r : 2 * r[group_col] >= threshold2)

LowGroup(df, group_col, threshold2) == SelectSeq(df, LAMBDA r : 2 * r[group_col] < threshold2)

\* compare_groups(df, group_col, threshold, value_col); the threshold is doubled
compare_groups(df, group_col, threshold2, value_col) ==
    LET high_group == ColumnOf(HighGroup(df, group_col, threshold2), value_col)
        low_group == ColumnOf(LowGroup(df, group_col, threshold2), value_col)
        test == TTestInd(high_group, low_group)
        pooled_var == PooledVar(SeriesVar(high_group), Len(high_group),
                                SeriesVar(low_group), Len(low_group))
        difference == FloatSub(SeriesMean(high_group), SeriesMean(low_group))
    IN [high_mean |-> SeriesMean(high_group),
        high_std |-> SeriesVar(high_group),
        high_n |-> Len(high_group),
        low_mean |-> SeriesMean(low_group),
        low_std |-> SeriesVar(low_group),
        low_n |-> Len(low_group),
        difference |-> difference,
        t_statistic |-> test,
        p_value |-> test,
        cohens_d |-> CohensD(difference, pooled_var),
        pooled_var |-> pooled_var]

\* pd.to_datetime(date).dt.month of a date held as an ordinal
MonthOf(ord) ==
    With(CHOOSE yy \in (ord \div 366)..(ord \div 365 + 1) :
             ToOrdinal(yy, 1, 1) <= ord /\ ord < ToOrdinal(yy + 1, 1, 1),
         LAMBDA y :
         CHOOSE m \in 1..12 :
            /\ ToOrdinal(y, m, 1) <= ord
            /\ ord <= ToOrdinal(y, m, DaysInMonth(y, m)))

\* df['month'] = pd.to_datetime(df[date_col]).dt.month on a copy of the table
WithMonth(df, date_col) == MapSeq(LAMBDA row : [month |-> MonthOf(row[date_col])] @@ row, df)

\* monthly_means = df.groupby('month')[value_col].mean()
MonthlyMeans(df, value_col) ==
    [m \in {df[i].month : i \in 1..Len(df)} |->
        SeriesMean(ColumnOf(SelectSeq(df, LAMBDA r : r.month = m), value_col))]

\* (mutant) the overall mean is not added back
SeasonalAdjustmentNoMean(df, date_col, value_col) ==
    With(WithMonth(df, date_col), LAMBDA dfm :
    With(MonthlyMeans(dfm, value_col), LAMBDA monthly_means :
         MapSeq(LAMBDA row :
                   [adjusted |-> FloatSub(Frac(<<row[value_col], 1>>),
                                          monthly_means[row.month])] @@ row,
                dfm)))

\* compute_seasonal_adjustment(df, date_col, value_col): a copy of the table
\* with the columns month and adjusted set
compute_seasonal_adjustment(df, date_col, value_col) ==
    With(WithMonth(df, date_col), LAMBDA dfm :
    With(MonthlyMeans(dfm, value_col), LAMBDA monthly_means :
    With(SeriesMean(ColumnOf(df, value_col)), LAMBDA overall_mean :
         MapSeq(LAMBDA row :
                   [adjusted |-> FloatAdd(FloatSub(Frac(<<row[value_col], 1>>),
                                                   monthly_means[row.month]),
                                          overall_mean)] @@ row,
                dfm))))

\* ---------------------------------------------------------------------------
\* Interactive Explorer page (pages/3_Interactive_Explorer.py)
\* One evaluation of the page script for one setting of its controls.
\* A table row is a record keyed by column name.
\* ---------------------------------------------------------------------------
\* the options of the storm metric selectbox
storm_metric_map ==
    <<"weekly_mean_Kp", "weekly_mean_ap", "weekly_sum_ap", "weekly_max_Kp", "storm_count_Kp5">>

StormMetrics == {storm_metric_map[i] : i \in 1..Len(storm_metric_map)}

\* y_col_base = f'deaths_{selected_outcome}'
DeathsCol(outcome) == "deaths_" \o outcome

\* the set of values of a column
ColumnValues(df, col) == {df[i][col] : i \in 1..Len(df)}

ColMin(df, col) == CHOOSE v \in ColumnValues(df, col) : \A w \in ColumnValues(df, col) : v <= w

ColMax(df, col) == CHOOSE v \in ColumnValues(df, col) : \A w \in ColumnValues(df, col) : v >= w

\* the k-th smallest value of a column (k from 1)
KthValue(df, col, k) ==
    CHOOSE v \in ColumnValues(df, col) :
        /\ Cardinality({i \in 1..Len(df) : df[i][col] < v}) < k
        /\ Cardinality({i \in 1..Len(df) : df[i][col] <= v}) >= k

\* twice Series.median(): the middle value, or the sum of the two middle values
TwiceMedian(df, col) ==
    LET n == Len(df)
    IN IF n % 2 = 1 THEN 2 * KthValue(df, col, (n + 1) \div 2)
       ELSE KthValue(df, col, n \div 2) + KthValue(df, col, n \div 2 + 1)

HardLimit == 10
SoftLimit == 30

\* (mutant) the hard warning only when both groups are small
SampleBannerBothSmall(low_n, high_n) ==
    IF high_n < HardLimit /\ low_n < HardLimit THEN "error"
    ELSE IF high_n < SoftLimit \/ low_n < SoftLimit THEN "warning"
    ELSE "success"

\* the sample size banner: st.error, st.warning or st.success
SampleBanner(low_n, high_n) ==
    IF high_n < HardLimit \/ low_n < HardLimit THEN "error"
    ELSE IF high_n < SoftLimit \/ low_n < SoftLimit THEN "warning"
    ELSE "success"

\* reliability_note in the statistics panel
ReliabilityNote(low_n, high_n) ==
    IF high_n < HardLimit \/ low_n < HardLimit THEN "unreliable"
    ELSE IF high_n < SoftLimit \/ low_n < SoftLimit THEN "limited"
    ELSE "none"

\* (mutant) the export keeps every column of the filtered table
ExplorerCsvAllColumns(filtered_df, outcome, metric, year_range) ==
    [columns |-> <<"year", "week_num", "week_end", DeathsCol(outcome), metric>>,
     rows |-> filtered_df,
     file_name |-> "geomagnetic_" \o outcome \o "_" \o ToString(year_range[1])
                       \o "_" \o ToString(year_range[2]) \o ".csv"]

\* the downloadable CSV: filtered_df[display_cols].to_csv(index=False) and its file name
ExplorerCsv(filtered_df, outcome, metric, year_range) ==
    LET display_cols == <<"year", "week_num", "week_end", DeathsCol(outcome), metric>>
        names == {display_cols[i] : i \in 1..Len(display_cols)}
    IN [columns |-> display_cols,
        rows |-> MapSeq(LAMBDA r : [c \in names |-> r[c]], filtered_df),
        file_name |-> "geomagnetic_" \o outcome \o "_" \o ToString(year_range[1])
                          \o "_" \o ToString(year_range[2]) \o ".csv"]

\* the evaluation stopped with an exception in the step named at
ExplorerRaised(ctl, at) ==
    [raised |-> TRUE, at |-> at, ctl |-> ctl, n |-> 0, low_n |-> 0, high_n |-> 0,
     banner |-> "", note |-> "", csv |-> NoValue]

\* filtered_df.rename(columns={'adjusted': name}, inplace=True)
RenameAdjusted(df, name) ==
    MapSeq(LAMBDA row : [c \in (DOMAIN row \ {"adjusted"}) \cup {name} |->
                            IF c = name THEN row.adjusted ELSE row[c]],
           df)

\* (mutant) the adjusted outcome is written over the outcome column
ExplorerFrameInPlace(table, outcome, storm_metric, year_range, remove_seasonality) ==
    With(SelectSeq(table, LAMBDA r : r.year >= year_range[1] /\ r.year <= year_range[2]),
         LAMBDA filtered_df :
    IF remove_seasonality
      THEN With(RenameAdjusted(compute_seasonal_adjustment(filtered_df, "week_end",
                                                           DeathsCol(outcome)),
                               DeathsCol(outcome)),
                LAMBDA first :
                [df |-> RenameAdjusted(compute_seasonal_adjustment(first, "week_end",
                                                                   storm_metric),
                                       storm_metric \o "_adjusted"),
                 x_col |-> storm_metric \o "_adjusted",
                 y_col |-> DeathsCol(outcome)])
      ELSE [df |-> filtered_df, x_col |-> storm_metric, y_col |-> DeathsCol(outcome)])

\* The year filter and the seasonal adjustment: filtered_df as the sections
\* below it read it, and the column pair x_col, y_col.
ExplorerFrame(table, outcome, storm_metric, year_range, remove_seasonality) ==
    With(SelectSeq(table, LAMBDA r : r.year >= year_range[1] /\ r.year <= year_range[2]),
         LAMBDA filtered_df :
    IF remove_seasonality
      THEN With(RenameAdjusted(compute_seasonal_adjustment(filtered_df, "week_end",
                                                           DeathsCol(outcome)),
                               DeathsCol(outcome) \o "_adjusted"),
                LAMBDA first :
                [df |-> RenameAdjusted(compute_seasonal_adjustment(first, "week_end",
                                                                   storm_metric),
                                       storm_metric \o "_adjusted"),
                 x_col |-> storm_metric \o "_adjusted",
                 y_col |-> DeathsCol(outcome) \o "_adjusted"])
      ELSE [df |-> filtered_df, x_col |-> storm_metric, y_col |-> DeathsCol(outcome)])

\* The page script below the year filter, on the frame ExplorerFrame gives.
\* ctl holds the control values: outcome, year_range, storm_metric,
\* remove_seasonality, show_confidence, show_table, threshold ("min", "median"
\* or "max" of the slider) and flat_slider: whether st.slider accepts
\* min_value = max_value (it depends on the installed Streamlit).
ExplorerSections(table, frame, ctl) ==
    LET min_year == ColMin(table, "year")
        max_year == ColMax(table, "year")
        filtered_df == frame.df
    IN IF min_year = max_year /\ ~ctl.flat_slider THEN ExplorerRaised(ctl, "year_slider")
       \* compute_correlation(filtered_df, x_col, y_col): pearsonr raises
       \* ValueError below two observations
       ELSE IF Len(filtered_df) < 2 THEN ExplorerRaised(ctl, "compute_correlation")
       ELSE With(<<ColMin(filtered_df, ctl.storm_metric), ColMax(filtered_df, ctl.storm_metric),
                   TwiceMedian(filtered_df, ctl.storm_metric)>>,
                 LAMBDA stat :
            \* stat: min(), max() and twice median() of the storm metric
            With(CASE ctl.threshold = "min" -> 2 * stat[1]
                   [] ctl.threshold = "max" -> 2 * stat[2]
                   [] OTHER -> stat[3],
                 LAMBDA threshold2 :
            \* compare_groups(filtered_df, storm_metric, threshold, y_col_base)
            With(<<Len(ColumnOf(LowGroup(filtered_df, ctl.storm_metric, threshold2),
                                DeathsCol(ctl.outcome))),
                   Len(ColumnOf(HighGroup(filtered_df, ctl.storm_metric, threshold2),
                                DeathsCol(ctl.outcome)))>>,
                 LAMBDA group_results :
            IF stat[1] = stat[2] /\ ~ctl.flat_slider THEN ExplorerRaised(ctl, "threshold_slider")
            ELSE [raised |-> FALSE, at |-> "end", ctl |-> ctl,
                  n |-> Len(filtered_df),
                  frame |-> filtered_df,
                  \* the columns of the correlation and of the scatter plot
                  corr_cols |-> <<frame.x_col, frame.y_col>>,
                  scatter_cols |-> <<frame.x_col, frame.y_col>>,
                  \* the suggested median (doubled) and the slider
                  p50 |-> stat[3],
                  slider |-> [min_value |-> stat[1], max_value |-> stat[2],
                              value2 |-> stat[3]],
                  threshold2 |-> threshold2,
                  preview_low |-> Len(LowGroup(filtered_df, ctl.storm_metric, threshold2)),
                  preview_high |-> Len(HighGroup(filtered_df, ctl.storm_metric, threshold2)),
                  low_n |-> group_results[1], high_n |-> group_results[2],
                  banner |-> SampleBanner(group_results[1], group_results[2]),
                  note |-> IF ctl.show_confidence
                             THEN ReliabilityNote(group_results[1], group_results[2])
                             ELSE "",
                  \* create_distribution_comparison: the two histograms
                  hist_low |-> ColumnOf(LowGroup(filtered_df, ctl.storm_metric, threshold2),
                                        DeathsCol(ctl.outcome)),
                  hist_high |-> ColumnOf(HighGroup(filtered_df, ctl.storm_metric, threshold2),
                                         DeathsCol(ctl.outcome)),
                  csv |-> IF ctl.show_table
                            THEN <<ExplorerCsv(filtered_df, ctl.outcome,
                                               ctl.storm_metric, ctl.year_range)>>
                            ELSE NoValue])))

\* the page script from the controls to the download button
ExplorerPage(table, ctl) ==
    ExplorerSections(table,
                     ExplorerFrame(table, ctl.outcome, ctl.storm_metric, ctl.year_range,
                                   ctl.remove_seasonality),
                     ctl)

\* ---- inputs ----
WeeksPerYear == 52
MaxGroupRows == 30

\* sizes of the calm and of the stormy part of the table (a table of 30 + 23
\* rows has a single week in its second year)
GroupSizes == {0, 1, 9, 10, 23, 29, MaxGroupRows}

\* row i of the table: consecutive weeks from 2018 Week 01; level 0 is a calm
\* week, level 1 a stormy one
ExplorerRow(i, level) ==
    [year |-> 2018 + (i - 1) \div WeeksPerYear,
     week_num |-> ((i - 1) % WeeksPerYear) + 1,
     week_end |-> CandidateWeekEnd(i),
     deaths_suicide |-> 900 + (i % 7) + 20 * level,
     deaths_violence |-> 400 - (i % 5),
     deaths_overdose |-> 1500 + (i % 3) - 10 * level,
     deaths_cardiovascular |-> 9000 + (i % 11),
     weekly_mean_Kp |-> 6 + 9 * level,
     weekly_mean_ap |-> 7 + 41 * level,
     weekly_sum_ap |-> 392 + 2296 * level,
     weekly_max_Kp |-> 9 + 10 * level,
     storm_count_Kp5 |-> 3 * level]

RECURSIVE ExplorerRows(_, _, _)
\* calm rows first, then stormy rows
ExplorerRows(calm, stormy, i) ==
    IF i > calm + stormy THEN <<>>
    ELSE <<ExplorerRow(i, IF i <= calm THEN 0 ELSE 1)>> \o ExplorerRows(calm, stormy, i + 1)

\* load_weekly_data() has returned the weekly table (never empty: the
\* pipeline does not finish on an empty table)
ExplorerInit ==
    /\ \E calm \in GroupSizes : \E stormy \in GroupSizes :
          /\ calm + stormy > 0
          /\ xtable = ExplorerRows(calm, stormy, 1)
    /\ xview = <<>>
    /\ xpc = "input"

\* the controls that do not enter the frame
DisplayControls ==
    [show_confidence : BOOLEAN, show_table : BOOLEAN,
     threshold : {"min", "median", "max"}, flat_slider : BOOLEAN]

\* the page script runs once with the controls as set (the frame is the
\* same for every setting of the display controls)
EvaluateExplorer ==
    /\ xpc = "input"
    /\ \E outcome \in OutcomeKeys : \E storm_metric \in StormMetrics :
       \E remove_seasonality \in BOOLEAN :
       \E start \in ColumnValues(xtable, "year") : \E end \in ColumnValues(xtable, "year") :
          /\ start <= end
          /\ \E frame \in {ExplorerFrame(xtable, outcome, storm_metric, <<start, end>>,
                                         remove_seasonality)} :
             \E c \in DisplayControls :
                xview' = ExplorerSections(xtable, frame,
                                          c @@ [outcome |-> outcome,
                                                storm_metric |-> storm_metric,
                                                remove_seasonality |-> remove_seasonality,
                                                year_range |-> <<start, end>>])
    /\ xpc' = "done"
    /\ UNCHANGED xtable
    /\ UNCHANGED <<storeVars, mortVars, mergeVars, weeklyVars, corrVars>>
    /\ UNCHANGED <<cacheVars, statVars, calVars, helperVars>>

\* every variable of the pipeline functions and of the store is unused
PipelineOff == StoreOff /\ MortOff /\ MergeOff /\ WeeklyOff /\ CorrOff

InitExplorer == PipelineOff /\ ExplorerInit /\ CacheOff /\ StatOff /\ CalOff /\ HelperOff

NextExplorer == EvaluateExplorer

SpecExplorer == InitExplorer /\ [][NextExplorer]_vars

\* C12 (as stated): the hard warning is shown exactly when both groups have
\* fewer than 10 weeks; otherwise the soft warning exactly when either group
\* has at least 10 and fewer than 30 weeks; otherwise the success banner.
C12_BannerBothSmall ==
    (xpc = "done" /\ ~xview.raised) =>
        LET low_n == xview.low_n
            high_n == xview.high_n
            hard == low_n < 10 /\ high_n < 10
            soft == ~hard /\ ((low_n >= 10 /\ low_n < 30) \/ (high_n >= 10 /\ high_n < 30))
        IN /\ (xview.banner = "error") = hard
           /\ (xview.banner = "warning") = soft
           /\ (xview.banner = "success") = (~hard /\ ~soft)

\* C12 (amended): the hard warning is shown exactly when at least one group
\* has fewer than 10 weeks; otherwise the soft warning exactly when at least
\* one group has fewer than 30 weeks; otherwise the success banner; the
\* reliability note of the statistics panel follows the same classes.
C12_BannerEitherSmall ==
    (xpc = "done" /\ ~xview.raised) =>
        LET low_n == xview.low_n
            high_n == xview.high_n
            hard == low_n < 10 \/ high_n < 10
            soft == ~hard /\ (low_n < 30 \/ high_n < 30)
        IN /\ (xview.banner = "error") = hard
           /\ (xview.banner = "warning") = soft
           /\ (xview.banner = "success") = (~hard /\ ~soft)
           /\ xview.ctl.show_confidence =>
                 /\ (xview.note = "unreliable") = hard
                 /\ (xview.note = "limited") = soft
                 /\ (xview.note = "none") = (~hard /\ ~soft)

C12_Witness ==
    /\ xpc = "done"
    /\ ~xview.raised
    /\ xview.low_n = 9
    /\ xview.high_n = 30
    /\ xview.banner = "error"

\* C13 (as stated): for every weekly table and every combination of control
\* values, one page evaluation runs to its end and shows the correlation
\* figures, the group comparison and one sample-adequacy banner.
C13_EvaluationAlwaysCompletes ==
    xpc = "done" =>
        /\ ~xview.raised
        /\ xview.at = "end"
        /\ xview.banner \in {"error", "warning", "success"}

\* C14: the CSV offered for outcome o, storm metric m and year range
\* (start, end) has exactly the columns year, week_num, week_end, deaths_<o>,
\* m, exactly one row for each weekly-table row whose year lies in
\* [start, end] and no other row, and the name geomagnetic_<o>_<start>_<end>.csv,
\* with or without seasonal adjustment.
C14_CsvIsFilteredTable ==
    (xpc = "done" /\ ~xview.raised /\ xview.csv # NoValue) =>
        LET csv == xview.csv[1]
            ctl == xview.ctl
            cols == {"year", "week_num", "week_end", "deaths_" \o ctl.outcome, ctl.storm_metric}
            inRange == {i \in 1..Len(xtable) :
                           /\ xtable[i].year >= ctl.year_range[1]
                           /\ xtable[i].year <= ctl.year_range[2]}
        IN /\ {csv.columns[i] : i \in 1..Len(csv.columns)} = cols
           /\ Len(csv.columns) = 5
           /\ Len(csv.rows) = Cardinality(inRange)
           /\ \A i \in inRange :
                 Cardinality({j \in 1..Len(csv.rows) :
                                 csv.rows[j] = [c \in cols |-> xtable[i][c]]}) = 1
           /\ csv.file_name = "geomagnetic_" \o ctl.outcome \o "_"
                                 \o ToString(ctl.year_range[1]) \o "_"
                                 \o ToString(ctl.year_range[2]) \o ".csv"

C14_Witness ==
    /\ xpc = "done"
    /\ ~xview.raised
    /\ xview.csv # NoValue
    /\ xview.ctl.remove_seasonality
    /\ xview.ctl.outcome = "overdose"
    /\ xview.ctl.storm_metric = "weekly_max_Kp"
    /\ ~xview.ctl.flat_slider
    /\ Len(xtable) > Len(xview.csv[1].rows)
    /\ Len(xview.csv[1].rows) = WeeksPerYear
    /\ xview.csv[1].file_name = "geomagnetic_overdose_2018_2018.csv"

\* the rows of the weekly table inside the chosen year range
RawFiltered ==
    SelectSeq(xtable, LAMBDA r : r.year >= xview.ctl.year_range[1]
                                    /\ r.year <= xview.ctl.year_range[2])

\* C25: 'remove seasonal patterns' changes only the column pair given to
\* the correlation and to the scatter plot (the adjusted pair when on, the
\* raw pair when off); every original column of the filtered table keeps
\* its values, and the suggested median, the slider bounds and value, the
\* group comparison, the histograms and the data table/CSV are those of the
\* raw columns whether the toggle is on or off.
C25_AdjustmentOnlyChangesPair ==
    (xpc = "done" /\ ~xview.raised) =>
        LET ctl == xview.ctl
            m == ctl.storm_metric
            y == "deaths_" \o ctl.outcome
            raw == RawFiltered
            pair == IF ctl.remove_seasonality THEN <<m \o "_adjusted", y \o "_adjusted">>
                    ELSE <<m, y>>
            low == SelectSeq(raw, LAMBDA r : 2 * r[m] < xview.threshold2)
            high == SelectSeq(raw, LAMBDA r : 2 * r[m] >= xview.threshold2)
        IN /\ xview.corr_cols = pair
           /\ xview.scatter_cols = pair
           /\ Len(xview.frame) = Len(raw)
           /\ \A i \in 1..Len(raw) : \A c \in DOMAIN raw[i] : xview.frame[i][c] = raw[i][c]
           /\ ~ctl.remove_seasonality => xview.frame = raw
           /\ xview.p50 = TwiceMedian(raw, m)
           /\ xview.slider = [min_value |-> ColMin(raw, m), max_value |-> ColMax(raw, m),
                              value2 |-> TwiceMedian(raw, m)]
           /\ xview.low_n = Len(low)
           /\ xview.high_n = Len(high)
           /\ xview.hist_low = [i \in 1..Len(low) |-> low[i][y]]
           /\ xview.hist_high = [i \in 1..Len(high) |-> high[i][y]]
           /\ xview.csv # NoValue =>
                 /\ xview.csv[1].columns = <<"year", "week_num", "week_end", y, m>>
                 /\ Len(xview.csv[1].rows) = Len(raw)
                 /\ \A i \in 1..Len(raw) :
                       xview.csv[1].rows[i] =
                           [c \in {"year", "week_num", "week_end", y, m} |-> raw[i][c]]

\* the toggle is on, the adjusted outcome differs from the raw one in some
\* week, and the data table is shown
C25_Witness ==
    /\ xpc = "done"
    /\ ~xview.raised
    /\ xview.ctl.remove_seasonality
    /\ xview.ctl.outcome = "suicide"
    /\ xview.ctl.storm_metric = "weekly_mean_ap"
    /\ xview.corr_cols = <<"weekly_mean_ap_adjusted", "deaths_suicide_adjusted">>
    /\ xview.csv # NoValue
    /\ \E i \in 1..Len(xview.frame) :
          /\ xview.frame[i].deaths_suicide_adjusted # Frac(<<xview.frame[i].deaths_suicide, 1>>)
          /\ xview.frame[i].deaths_suicide = RawFiltered[i].deaths_suicide

ClearCacheNoExistsCheck(dir, rmtree_fails) ==
    IF dir = "present" /\ ~rmtree_fails
      THEN [printed |-> <<"cleared", "cache_cleared", "restart_hint">>,
            raised |-> FALSE, dir |-> "absent"]
      ELSE [printed |-> <<"could_not_clear", "cache_cleared", "restart_hint">>,
            raised |-> FALSE, dir |-> dir]

\* one run of the script on the cache directory; rmtree_fails: shutil.rmtree
\* raises (a filesystem error). printed lists the lines the run prints.
ClearCache(dir, rmtree_fails) ==
    IF dir = "present"
      THEN IF ~rmtree_fails
             THEN [printed |-> <<"cleared", "cache_cleared", "restart_hint">>,
                   raised |-> FALSE, dir |-> "absent"]
             ELSE \* except Exception as e: print("Could not clear cache")
                  [printed |-> <<"could_not_clear", "cache_cleared", "restart_hint">>,
                   raised |-> FALSE, dir |-> "present"]
      ELSE [printed |-> <<"not_found", "cache_cleared", "restart_hint">>,
            raised |-> FALSE, dir |-> "absent"]

MaxCacheEvents == 5

CacheInit ==
    /\ cache_dir \in {"absent", "present"}
    /\ console = <<>>

\* the operator runs the script
RunClearCache(rmtree_fails) ==
    /\ Len(console) < MaxCacheEvents
    /\ LET out == ClearCache(cache_dir, rmtree_fails)
       IN /\ cache_dir' = out.dir
          /\ console' = Append(console, [event |-> "run", before |-> cache_dir,
                                          rmtree_fails |-> rmtree_fails /\ cache_dir = "present",
                                          printed |-> out.printed, raised |-> out.raised,
                                          after |-> out.dir])
    /\ UNCHANGED <<storeVars, mortVars, mergeVars, weeklyVars, corrVars>>
    /\ UNCHANGED <<explorerVars, statVars, calVars, helperVars>>

\* the application stores a cached result on disk, which creates the directory
AppWritesCache ==
    /\ Len(console) < MaxCacheEvents
    /\ cache_dir' = "present"
    /\ console' = Append(console, [event |-> "app", before |-> cache_dir,
                                    rmtree_fails |-> FALSE, printed |-> <<>>,
                                    raised |-> FALSE, after |-> "present"])
    /\ UNCHANGED <<storeVars, mortVars, mergeVars, weeklyVars, corrVars>>
    /\ UNCHANGED <<explorerVars, statVars, calVars, helperVars>>

InitClearCache == PipelineOff /\ ExplorerOff /\ CacheInit /\ StatOff /\ CalOff /\ HelperOff

NextClearCache ==
    \/ \E rmtree_fails \in BOOLEAN : RunClearCache(rmtree_fails)
    \/ AppWritesCache

SpecClearCache == InitClearCache /\ [][NextClearCache]_vars

\* the first line a run printed
Report(e) == e.printed[1]

\* C15: a run that finds the directory and whose removal succeeds reports it
\* removed, and the run that follows it directly reports it not found; a run
\* whose removal fails reports that the directory could not be removed and
\* leaves it in place; no run raises.
C15_ClearCacheTwice ==
    \A i \in 1..Len(console) :
        console[i].event = "run" =>
            /\ ~console[i].raised
            /\ (console[i].before = "present" /\ ~console[i].rmtree_fails) =>
                  /\ Report(console[i]) = "cleared"
                  /\ console[i].after = "absent"
                  /\ (i < Len(console) /\ console[i + 1].event = "run") =>
                        Report(console[i + 1]) = "not_found"
            /\ (console[i].before = "present" /\ console[i].rmtree_fails) =>
                  /\ Report(console[i]) = "could_not_clear"
                  /\ console[i].after = "present"

C15_Witness ==
    /\ Len(console) >= 4
    /\ console[1].event = "run" /\ console[1].rmtree_fails
    /\ console[2].event = "run" /\ Report(console[2]) = "cleared"
    /\ console[3].event = "run" /\ Report(console[3]) = "not_found"
    /\ console[4].event = "app"

\* ---------------------------------------------------------------------------
\* components/statistics.py: the two functions called on their own
\* ---------------------------------------------------------------------------
\* ---- inputs ----
MaxStatRows == 4

\* week-end dates of the rows: one in January 2018, one in February 2018
StatDates == {ToOrdinal(2018, 1, 6), ToOrdinal(2018, 2, 3)}

StatRows == [week_end : StatDates, metric : {0, 1}, deaths : {10, 20}]

StatInit ==
    /\ sdf \in SeqsUpTo(StatRows, MaxStatRows)
    /\ sout = <<>>
    /\ stpc = "input"

\* compare_groups(df, 'metric', threshold, 'deaths') is called
CompareGroups(threshold2) ==
    /\ stpc = "input"
    /\ sout' = [threshold2 |-> threshold2,
                result |-> compare_groups(sdf, "metric", threshold2, "deaths")]
    /\ stpc' = "compared"
    /\ UNCHANGED sdf
    /\ UNCHANGED <<storeVars, mortVars, mergeVars, weeklyVars, corrVars>>
    /\ UNCHANGED <<explorerVars, cacheVars, calVars, helperVars>>

\* compute_seasonal_adjustment(df, 'week_end', 'deaths') is called on a table with rows
SeasonalAdjustment ==
    /\ stpc = "input"
    /\ sdf # <<>>
    /\ sout' = compute_seasonal_adjustment(sdf, "week_end", "deaths")
    /\ stpc' = "adjusted"
    /\ UNCHANGED sdf
    /\ UNCHANGED <<storeVars, mortVars, mergeVars, weeklyVars, corrVars>>
    /\ UNCHANGED <<explorerVars, cacheVars, calVars, helperVars>>

InitStats == PipelineOff /\ ExplorerOff /\ CacheOff /\ StatInit /\ CalOff /\ HelperOff

NextStats ==
    \/ \E threshold2 \in {0, 1, 3} : CompareGroups(threshold2)
    \/ SeasonalAdjustment

SpecStats == InitStats /\ [][NextStats]_vars

\* the rows of the input on each side of the threshold
HighRows == {i \in 1..Len(sdf) : 2 * sdf[i].metric >= sout.threshold2}
LowRows == {i \in 1..Len(sdf) : 2 * sdf[i].metric < sout.threshold2}

\* all rows of the set have the same value
ConstantOn(rows) == \A i \in rows : \A j \in rows : sdf[i].deaths = sdf[j].deaths

C17_EmptyGroupGivesAbsentValues ==
    (stpc = "compared" /\ (HighRows = {} \/ LowRows = {})) =>
        /\ HighRows = {} => (sout.result.high_mean.nan /\ sout.result.high_std.nan)
        /\ LowRows = {} => (sout.result.low_mean.nan /\ sout.result.low_std.nan)
        /\ sout.result.difference.nan
        /\ sout.result.t_statistic.nan
        /\ sout.result.p_value.nan
        /\ sout.result.cohens_d.nan

\* the mean of the adjusted column of the returned table
AdjustedMean ==
    LET RECURSIVE Sum(_)
        Sum(k) == IF k = 0 THEN <<0, 1>> ELSE FracAdd(Sum(k - 1), sout[k].adjusted.v)
        total == Sum(Len(sout))
    IN <<total[1], total[2] * Len(sout)>>

\* C18: the mean of the adjusted column returned by
\* compute_seasonal_adjustment equals the mean of the input value column, and
\* each adjusted value is the row's value minus the mean of its calendar
\* month plus the overall mean.
C18_AdjustmentKeepsMean ==
    stpc = "adjusted" =>
        /\ Len(sout) = Len(sdf)
        /\ \A i \in 1..Len(sout) :
              LET sameMonth == {j \in 1..Len(sdf) :
                                   MonthOf(sdf[j].week_end) = MonthOf(sdf[i].week_end)}
                  monthTotal == Total([k \in 1..Len(sdf) |->
                                          IF k \in sameMonth THEN sdf[k].deaths ELSE 0])
                  allTotal == Total([k \in 1..Len(sdf) |-> sdf[k].deaths])
              IN /\ ~sout[i].adjusted.nan
                 \* adjusted = value - monthTotal / |month| + allTotal / n
                 /\ FracEq(sout[i].adjusted.v,
                           <<sdf[i].deaths * Cardinality(sameMonth) * Len(sdf)
                                - monthTotal * Len(sdf) + allTotal * Cardinality(sameMonth),
                             Cardinality(sameMonth) * Len(sdf)>>)
        /\ FracEq(AdjustedMean, <<Total([k \in 1..Len(sdf) |-> sdf[k].deaths]), Len(sdf)>>)

C18_Witness ==
    /\ stpc = "adjusted"
    /\ Len(sdf) = 3
    /\ MonthOf(sdf[1].week_end) = 1 /\ MonthOf(sdf[2].week_end) = 2
    /\ MonthOf(sdf[3].week_end) = 1
    /\ sdf[1].deaths = 10 /\ sdf[2].deaths = 10 /\ sdf[3].deaths = 20
    /\ ~FracEq(sout[1].adjusted.v, <<sdf[1].deaths, 1>>)

\* ---------------------------------------------------------------------------
\* utils/mmwr_calendar.py: parse_mmwr_week, next to the pipeline's
\* parse_week_string
\* ---------------------------------------------------------------------------
MmwrRaised(exc) == [status |-> "raise", exc |-> exc, year |-> 0, week |-> 0, end_date |-> 0]

\* parse_mmwr_week(mmwr_string): status "ok" with (year, week, end_date as an
\* ordinal); the function catches nothing, so every exception of its
\* statements leaves it: status "raise" with the exception's name
parse_mmwr_week(mmwr_string) ==
    LET parts == Split(mmwr_string)
    IN IF Len(parts) < 1 THEN MmwrRaised("IndexError")               \* parts[0]
       ELSE LET year == PyInt(parts[1])
       IN IF ~year.ok THEN MmwrRaised("ValueError")                   \* int(parts[0])
       ELSE IF Len(parts) < 3 THEN MmwrRaised("IndexError")           \* parts[2]
       ELSE LET week == PyInt(parts[3])
       IN IF ~week.ok THEN MmwrRaised("ValueError")                   \* int(parts[2])
       ELSE IF Len(parts) < 7 THEN MmwrRaised("IndexError")           \* parts[4..6]
       ELSE LET month_str == parts[5]
                day == PyInt(RStripComma(parts[6]))
                yr == PyInt(parts[7])
       IN IF ~yr.ok THEN MmwrRaised("ValueError")                     \* int(year_str)
       ELSE IF month_str \notin DOMAIN month_map THEN MmwrRaised("KeyError")
       ELSE IF ~day.ok THEN MmwrRaised("ValueError")                  \* int(day_str)
       ELSE IF yr.big \/ day.big THEN MmwrRaised("OverflowError")     \* datetime()
       ELSE IF yr.val < 1 \/ yr.val > 9999 THEN MmwrRaised("ValueError")
       ELSE IF day.val < 1 \/ day.val > DaysInMonth(yr.val, month_map[month_str])
              THEN MmwrRaised("ValueError")
       ELSE [status |-> "ok", exc |-> "", year |-> year.val, week |-> week.val,
             end_date |-> ToOrdinal(yr.val, month_map[month_str], day.val)]

\* ---- inputs ----
MaxTokens == 8

\* the tokens tried at each position of a week string
TokenChoices(i) ==
    IF i = 1 THEN {<<"2", "0", "1", "8">>, <<"T", "o", "t", "a", "l">>}
    ELSE IF i = 2 THEN {<<"W", "e", "e", "k">>, <<"W", "k">>}
    ELSE IF i = 3 THEN {<<"0", "1">>, <<"5", "3">>, <<"x", "x">>}
    ELSE IF i = 4 THEN {<<"e", "n", "d", "i", "n", "g">>}
    ELSE IF i = 5 THEN {<<"J", "a", "n", "u", "a", "r", "y">>, <<"F", "e", "b", "r", "u", "a", "r", "y">>, <<"F", "e", "b", "u", "a", "r", "y">>}
    ELSE IF i = 6 THEN {<<"0", "6", ",">>, <<"3", "0", ",">>, <<"6">>, <<"x", "x", ",">>}
    ELSE IF i = 7 THEN {<<"2", "0", "1", "8">>, <<"0">>, <<"9", "9", "9", "9", "9", "9", "9", "9", "9", "9", "9">>}
    ELSE {<<"e", "x", "t", "r", "a">>}

RECURSIVE JoinTokens(_)
\* ' '.join(tokens)
JoinTokens(tokens) ==
    IF tokens = <<>> THEN <<>>
    ELSE IF Len(tokens) = 1 THEN tokens[1]
    ELSE tokens[1] \o <<" ">> \o JoinTokens(Tail(tokens))

RECURSIVE TokenSeqs(_)
\* the token sequences of length n
TokenSeqs(n) ==
    IF n = 0 THEN {<<>>}
    ELSE {Append(t, x) : t \in TokenSeqs(n - 1), x \in TokenChoices(n)}

\* week strings of zero to MaxTokens tokens
WeekStrings == UNION {{JoinTokens(t) : t \in TokenSeqs(n)} : n \in 0..MaxTokens}

NotCalled == [status |-> "not called"]

CalInit ==
    /\ wstring \in WeekStrings
    /\ calOut = [mmwr |-> NotCalled, inline |-> NotCalled]
    /\ calpc = "input"

\* parse_mmwr_week(wstring) is called
CallParseMmwrWeek ==
    /\ calpc = "input"
    /\ calOut.mmwr = NotCalled
    /\ calOut' = [calOut EXCEPT !.mmwr = parse_mmwr_week(wstring)]
    /\ UNCHANGED <<wstring, calpc>>
    /\ UNCHANGED <<storeVars, mortVars, mergeVars, weeklyVars, corrVars>>
    /\ UNCHANGED <<explorerVars, cacheVars, statVars, helperVars>>

\* parse_week_string(wstring) is called
CallParseWeekString ==
    /\ calpc = "input"
    /\ calOut.inline = NotCalled
    /\ calOut' = [calOut EXCEPT !.inline = parse_week_string(wstring)]
    /\ UNCHANGED <<wstring, calpc>>
    /\ UNCHANGED <<storeVars, mortVars, mergeVars, weeklyVars, corrVars>>
    /\ UNCHANGED <<explorerVars, cacheVars, statVars, helperVars>>

InitCalendar == PipelineOff /\ ExplorerOff /\ CacheOff /\ StatOff /\ CalInit /\ HelperOff

NextCalendar == CallParseMmwrWeek \/ CallParseWeekString

SpecCalendar == InitCalendar /\ [][NextCalendar]_vars

\* the fixed shape '<year> Week <NN> ending <MonthName> <DD>, <year>': seven
\* tokens, the two literal words, a month name, whole numbers in the
\* numeric fields
FixedShape(s) ==
    LET parts == Split(s)
    IN /\ Len(parts) = 7
       /\ parts[2] = PatWeek
       /\ parts[4] = <<"e", "n", "d", "i", "n", "g">>
       /\ parts[5] \in DOMAIN month_map
       /\ PyInt(parts[1]).ok /\ PyInt(parts[3]).ok
       /\ PyInt(RStripComma(parts[6])).ok /\ PyInt(parts[7]).ok

\* C19 (as stated): parse_mmwr_week returns a result only for strings of the
\* fixed shape, and fails for every string whose token count, month name or
\* numeric fields do not conform, strings of fewer or more than seven
\* tokens included.
C19_OnlyFixedShapeAccepted ==
    calOut.mmwr.status = "ok" => FixedShape(wstring)

\* C20 (as stated): parse_week_string and parse_mmwr_week agree on every week
\* string: one accepts it exactly when the other does, and then both give
\* the same week number and the same week-end date.
C20_ParsersAgree ==
    (calOut.mmwr # NotCalled /\ calOut.inline # NotCalled) =>
        /\ calOut.mmwr.status = "ok" <=> calOut.inline.status = "ok"
        /\ calOut.mmwr.status = "ok" =>
              /\ calOut.mmwr.week = calOut.inline.week_num
              /\ calOut.mmwr.end_date = calOut.inline.week_end

\* ---------------------------------------------------------------------------
\* components/statistics.py: format_p_value
\* A p value is a whole number of units of 1e-5. Text is a sequence of
\* one-character strings.
\* ---------------------------------------------------------------------------
PUnit == 100000

DigitText == <<"0", "1", "2", "3", "4", "5", "6", "7", "8", "9">>

RECURSIVE NatText(_)
\* str(n) for n >= 0
NatText(n) ==
    IF n < 10 THEN <<DigitText[n + 1]>>
    ELSE NatText(n \div 10) \o <<DigitText[(n % 10) + 1]>>

RECURSIVE FracText(_, _)
\* the last `places` digits of n, zeros kept
FracText(n, places) ==
    IF places = 0 THEN <<>>
    ELSE FracText(n \div 10, places - 1) \o <<DigitText[(n % 10) + 1]>>

RECURSIVE Pow10(_)
Pow10(e) == IF e = 0 THEN 1 ELSE 10 * Pow10(e - 1)

\* f"{p:.<places>f}": p rounded to the nearest multiple of 10^-places. A
\* decimal that lies halfway between two multiples is stored as a double just
\* above or just below the half; rounds_up says which
FormatFixed(p, places, rounds_up) ==
    LET unit == PUnit \div Pow10(places)
        q == p \div unit
        rem == p % unit
        r == IF 2 * rem > unit \/ (2 * rem = unit /\ rounds_up) THEN q + 1 ELSE q
    IN NatText(r \div Pow10(places)) \o <<".">> \o FracText(r % Pow10(places), places)

LessThanThousandth == <<"<", " ", "0", ".", "0", "0", "1">>

\* (mutant) the comparisons made with <=
FormatPValueInclusive(p, rounds_up) ==
    IF p <= PUnit \div 1000 THEN LessThanThousandth
    ELSE IF p <= PUnit \div 100 THEN FormatFixed(p, 3, rounds_up)
    ELSE FormatFixed(p, 2, rounds_up)

\* format_p_value(p)
format_p_value(p, rounds_up) ==
    IF p < PUnit \div 1000 THEN LessThanThousandth
    ELSE IF p < PUnit \div 100 THEN FormatFixed(p, 3, rounds_up)
    ELSE FormatFixed(p, 2, rounds_up)

\* ---- inputs ----
MaxFineP == 1100

\* every p up to MaxFineP units, and some larger ones up to 1
PValues == (0..MaxFineP) \cup {1250, 1500, 2000, 4999, 5000, 5500, 12500, 99499, 99999, PUnit}

FormatInit ==
    /\ fin \in [p : PValues, rounds_up : BOOLEAN]
    /\ fout = <<>>
    /\ fpc = "input"

\* format_p_value(p) is called
FormatPValue ==
    /\ fpc = "input"
    /\ fout' = format_p_value(fin.p, fin.rounds_up)
    /\ fpc' = "done"
    /\ UNCHANGED fin
    /\ UNCHANGED <<storeVars, mortVars, mergeVars, weeklyVars, corrVars>>
    /\ UNCHANGED <<explorerVars, cacheVars, statVars, calVars>>

InitFormat == PipelineOff /\ ExplorerOff /\ CacheOff /\ StatOff /\ CalOff /\ FormatInit

NextFormat == FormatPValue

SpecFormat == InitFormat /\ [][NextFormat]_vars

\* the number of characters after the decimal point of a text
DecimalPlaces(text) ==
    LET dots == {i \in 1..Len(text) : text[i] = "."}
    IN IF Cardinality(dots) # 1 THEN -1
       ELSE Len(text) - (CHOOSE i \in dots : TRUE)

\* the value of a decimal text, in units of 10^-DecimalPlaces(text)
DecimalValue(text) == DigitsValue(SelectSeq(text, LAMBDA c : c \in Digits), 0)

\* the text shows p to `places` decimals: it reads back as a value within
\* half a unit of the last place of p
ShowsTo(text, p, places) ==
    /\ DecimalPlaces(text) = places
    /\ \A i \in 1..Len(text) : text[i] \in Digits \cup {"."}
    /\ LET unit == PUnit \div Pow10(places)
           d == DecimalValue(text) * unit - p
       IN 2 * d <= unit /\ 2 * (0 - d) <= unit

\* C21: format_p_value(p) is the text '< 0.001' for p < 0.001, p to 3 decimal
\* places for 0.001 <= p < 0.01, and p to 2 decimal places for p >= 0.01;
\* 0.0009 gives '< 0.001', 0.005 gives '0.005', 0.02 gives '0.02'.
C21_FormatPValueBoundaries ==
    fpc = "done" =>
        /\ fin.p < 100 => fout = LessThanThousandth
        /\ (100 <= fin.p /\ fin.p < 1000) => ShowsTo(fout, fin.p, 3)
        /\ fin.p >= 1000 => ShowsTo(fout, fin.p, 2)
        /\ fin.p = 90 => fout = <<"<", " ", "0", ".", "0", "0", "1">>
        /\ fin.p = 500 => fout = <<"0", ".", "0", "0", "5">>
        /\ fin.p = 2000 => fout = <<"0", ".", "0", "2">>

C21_Witness ==
    /\ fpc = "done"
    /\ fin.p = 100
    /\ fout = <<"0", ".", "0", "0", "1">>

\* ---------------------------------------------------------------------------
\* aggregate_geomagnetic_weekly: the week window and the lag columns by date
\* ---------------------------------------------------------------------------
\* the measurements of geo_df with week_start <= t <= week_end + 1 day
InWindow(m) ==
    {i \in 1..Len(geo_df) :
        /\ geo_df[i].datetime >= AtMidnight(m.week_start)
        /\ geo_df[i].datetime <= AtMidnight(m.week_end + 1)}

RECURSIVE ApTotal(_)
ApTotal(idx) ==
    IF idx = {} THEN 0
    ELSE LET i == CHOOSE j \in idx : TRUE
         IN geo_df[i].ap + ApTotal(idx \ {i})

\* the rows of the sorted weekly table made for the mortality row m
RecordsOf(m) == {j \in 1..Len(prelag) : prelag[j].week_end = m.week_end}

ValueDaysBefore(r, col, d) ==
    LET earlier == {j \in 1..Len(prelag) : prelag[j].week_end = r.week_end - d}
    IN IF earlier = {} THEN NoValue
       ELSE <<prelag[CHOOSE j \in earlier : TRUE][col]>>

\* C22 (as stated): in the final weekly table the lag-1 value of each lagged
\* metric is the metric's value for the week ending exactly 7 days earlier,
\* and the lag-2 value its value for the week ending exactly 14 days earlier,
\* also when a calendar week is missing from the table.
C22_LagsAreCalendarWeeks ==
    wpc = "aggregated" =>
        \A i \in 1..Len(weekly_df) : \A n \in 1..Len(lag_vars) :
            /\ weekly_df[i][Lag1Col[lag_vars[n]]]
                  = ValueDaysBefore(weekly_df[i], lag_vars[n], 7)
            /\ weekly_df[i][Lag2Col[lag_vars[n]]]
                  = ValueDaysBefore(weekly_df[i], lag_vars[n], 14)

\* C27 (as stated): every geomagnetic measurement is counted in the
\* statistics of at most one weekly record.
C27_MeasurementInOneWeek ==
    wpc = "aggregated" =>
        \A i \in 1..Len(geo_df) :
            Cardinality({j \in 1..Len(prelag) : i \in InWindow(prelag[j])}) <= 1

\* ---------------------------------------------------------------------------
\* compute_correlations with Pearson's r computed exactly, the
\* strongest_correlations of compute_summary_stats, and the landing page's
\* key finding.
\* The columns hold small whole numbers. r is [nan, sign, sq]: its sign and
\* its square as a fraction; nan = TRUE is the NaN of a constant column.
\* ---------------------------------------------------------------------------
RECURSIVE DotProduct(_, _)
DotProduct(xs, ys) ==
    IF xs = <<>> THEN 0 ELSE Head(xs) * Head(ys) + DotProduct(Tail(xs), Tail(ys))

\* n * sum(x*y) - sum(x) * sum(y): n^2 times the covariance
ScaledCov(xs, ys) == Len(xs) * DotProduct(xs, ys) - Total(xs) * Total(ys)

UndefinedR == [nan |-> TRUE, sign |-> 0, sq |-> <<0, 1>>]

\* the r of stats.pearsonr(x, y) for two columns of two or more values
PearsonR(xs, ys) ==
    LET cov == ScaledCov(xs, ys)
        vx == ScaledCov(xs, xs)
        vy == ScaledCov(ys, ys)
    IN IF vx = 0 \/ vy = 0 THEN UndefinedR
       ELSE [nan |-> FALSE,
             sign |-> IF cov > 0 THEN 1 ELSE IF cov < 0 THEN -1 ELSE 0,
             sq |-> <<cov * cov, vx * vy>>]

\* abs(a) < abs(b) for two defined r
AbsLess(a, b) == a.sq[1] * b.sq[2] < b.sq[1] * a.sq[2]

\* a < b for two defined r
SignedLess(a, b) ==
    IF a.sign # b.sign THEN a.sign < b.sign
    ELSE IF a.sign = 1 THEN AbsLess(a, b)
    ELSE IF a.sign = -1 THEN AbsLess(b, a)
    ELSE FALSE

\* weekly_df[metric_col]: a lag column holds <<value>>
MetricColumn(table, m) ==
    MapSeq(LAMBDA row : IF metrics[m].lag = "lag-1" THEN row[metrics[m].col][1]
                        ELSE row[metrics[m].col],
           table)

\* weekly_df[outcome_col]
OutcomeColumn(table, o) == MapSeq(LAMBDA row : row.deaths[outcomes[o].key], table)

\* the dict appended to results; the p value is SciPy's
ExactCorrelationRow(table, o, m) ==
    With(PearsonR(MetricColumn(table, m), OutcomeColumn(table, o)), LAMBDA r :
        [outcome |-> outcomes[o].key,
         metric |-> metrics[m].name,
         metric_col |-> metrics[m].col,
         lag |-> metrics[m].lag,
         pearson_r |-> r,
         pearson_p |-> IF r.nan THEN "nan" ELSE "scipy",
         r_squared |-> r.sq])

ExactRowsOfKind(table, o, kind) ==
    MapSeq(LAMBDA m : ExactCorrelationRow(table, o, m),
           SelectSeq(MetricIndexes, LAMBDA m : metrics[m].lag = kind))

RECURSIVE ExactOutcomeLoop(_, _)
ExactOutcomeLoop(table, o) ==
    IF o > Len(outcomes) THEN <<>>
    ELSE ExactRowsOfKind(table, o, "same-week") \o ExactRowsOfKind(table, o, "lag-1")
         \o ExactOutcomeLoop(table, o + 1)

\* compute_correlations(weekly_df) on a table of whole numbers
compute_correlations_exact(table) ==
    IF Len(table) < 2 THEN [raised |-> TRUE, rows |-> <<>>]
    ELSE [raised |-> FALSE, rows |-> ExactOutcomeLoop(table, 1)]

\* (mutant) pearson_r.idxmax() without abs()
StrongestSigned(corrs, prefer_last) ==
    LET top == {i \in 1..Len(corrs) :
                   \A j \in 1..Len(corrs) : ~SignedLess(corrs[i].pearson_r, corrs[j].pearson_r)}
    IN corrs[CHOOSE i \in top : \A j \in top : IF prefer_last THEN j <= i ELSE i <= j]

\* corrs.loc[corrs['pearson_r'].abs().idxmax()]: the first row with the
\* largest abs(r). Rows whose exact r are equal can differ in the last bit
\* as doubles; prefer_last takes the last of them instead of the first
Strongest(corrs, prefer_last) ==
    LET top == {i \in 1..Len(corrs) :
                   \A j \in 1..Len(corrs) : ~AbsLess(corrs[i].pearson_r, corrs[j].pearson_r)}
    IN corrs[CHOOSE i \in top : \A j \in top : IF prefer_last THEN j <= i ELSE i <= j]

\* outcome_corrs.dropna(subset=['pearson_r'])
ValidCorrs(correlation_df, outcome_name) ==
    SelectSeq(correlation_df, LAMBDA c : c.outcome = outcome_name /\ ~c.pearson_r.nan)

\* the 'same_week' / 'lag1' entry: None when no valid record has the lag
StrongestOfLag(valid_corrs, lag, prefer_last) ==
    LET lag_corrs == SelectSeq(valid_corrs, LAMBDA c : c.lag = lag)
    IN IF Len(lag_corrs) = 0 THEN NoValue
       ELSE With(Strongest(lag_corrs, prefer_last), LAMBDA s :
                [metric |-> s.metric, metric_col |-> s.metric_col,
                 pearson_r |-> s.pearson_r, pearson_p |-> s.pearson_p])

\* correlations_by_outcome: an entry for each outcome with a valid record
StrongestCorrelations(correlation_df, prefer_last) ==
    [o \in {k \in OutcomeKeys : Len(ValidCorrs(correlation_df, k)) > 0} |->
        With(ValidCorrs(correlation_df, o), LAMBDA valid_corrs :
            With(Strongest(valid_corrs, prefer_last), LAMBDA s :
                [overall |-> [metric |-> s.metric, metric_col |-> s.metric_col,
                              lag |-> s.lag, pearson_r |-> s.pearson_r,
                              pearson_p |-> s.pearson_p, r_squared |-> s.r_squared],
                 same_week |-> StrongestOfLag(valid_corrs, "same-week", prefer_last),
                 lag1 |-> StrongestOfLag(valid_corrs, "lag-1", prefer_last)]))]

\* landing page, "Key Finding": the warning when the outcome has no entry,
\* else the direction taken from r and the word taken from the difference
KeyFinding(s, o) ==
    IF o \notin DOMAIN s.strongest_correlations
      THEN [raised |-> FALSE, kind |-> "warning", explanation |-> "", word |-> ""]
    ELSE LET corr_data == s.strongest_correlations[o].overall
             diff == s.outcome_comparisons[o].difference
         IN IF ~Formats(diff)
              THEN [raised |-> TRUE, kind |-> "finding", explanation |-> "", word |-> ""]
              ELSE [raised |-> FALSE, kind |-> "finding",
                    explanation |-> IF corr_data.pearson_r.sign > 0
                                      THEN "higher during storm weeks"
                                      ELSE "lower during storm weeks",
                    word |-> IF diff[1][1] > 0 THEN "more" ELSE "fewer"]

\* ---- inputs ----
MaxSummaryWeeks == 3

\* the metrics of a quiet week, an active week without a Kp>=5 interval, and
\* a storm week
WeekKinds ==
    << [weekly_mean_Kp |-> 1, weekly_mean_ap |-> 1, weekly_sum_ap |-> 2,
        weekly_max_Kp |-> 2, storm_count_Kp5 |-> 0],
       [weekly_mean_Kp |-> 2, weekly_mean_ap |-> 3, weekly_sum_ap |-> 5,
        weekly_max_Kp |-> 4, storm_count_Kp5 |-> 0],
       [weekly_mean_Kp |-> 4, weekly_mean_ap |-> 6, weekly_sum_ap |-> 9,
        weekly_max_Kp |-> 6, storm_count_Kp5 |-> 2] >>

\* row i of the weekly table: the metrics of its week, the lag-1 columns
\* from the week before, and the four death counts
SummaryRow(kinds, d, i) ==
    WeekKinds[kinds[i + 1]]
    @@ [weekly_mean_Kp_lag1 |-> <<WeekKinds[kinds[i]].weekly_mean_Kp>>,
        weekly_mean_ap_lag1 |-> <<WeekKinds[kinds[i]].weekly_mean_ap>>,
        weekly_sum_ap_lag1 |-> <<WeekKinds[kinds[i]].weekly_sum_ap>>,
        weekly_max_Kp_lag1 |-> <<WeekKinds[kinds[i]].weekly_max_Kp>>,
        storm_count_Kp5_lag1 |-> <<WeekKinds[kinds[i]].storm_count_Kp5>>,
        deaths |-> [suicide |-> d[i], violence |-> 3 - d[i], overdose |-> d[i] + i,
                    cardiovascular |-> 5]]

RECURSIVE SummaryRows(_, _, _)
SummaryRows(kinds, d, i) ==
    IF i > Len(d) THEN <<>> ELSE <<SummaryRow(kinds, d, i)>> \o SummaryRows(kinds, d, i + 1)

\* the weekly tables of one to MaxSummaryWeeks rows
SummaryTables ==
    UNION {{SummaryRows(kinds, d, 1) :
               kinds \in [1..(n + 1) -> 1..Len(WeekKinds)], d \in [1..n -> {1, 2}]} :
           n \in 1..MaxSummaryWeeks}

SummaryInit ==
    /\ cscen \in SummaryTables
    /\ results = <<>>
    /\ cpc = "input"

\* correlation_df = compute_correlations(weekly_df)
ComputeCorrelationsExact ==
    /\ cpc = "input"
    /\ \E out \in {compute_correlations_exact(cscen)} :
          /\ cpc' = IF out.raised THEN "failed" ELSE "done"
          /\ results' = out.rows
    /\ UNCHANGED <<cscen, weeklyVars>>
    /\ UNCHANGED <<storeVars, mortVars, mergeVars, auxVars>>

\* summary_stats = compute_summary_stats(weekly_df, correlation_df)
SummariseCorrelations(prefer_last) ==
    /\ cpc = "done"
    /\ summary' = [outcome_comparisons |-> compute_summary_stats(cscen).outcome_comparisons,
                   strongest_correlations |-> StrongestCorrelations(results, prefer_last)]
    /\ cpc' = "summarised"
    /\ UNCHANGED <<cscen, results, mort_df, geo_df, prelag, weekly_df, shown, wpc>>
    /\ UNCHANGED <<storeVars, mortVars, mergeVars, auxVars>>

\* the landing page is evaluated with the outcome o selected
RenderKeyFinding(o) ==
    /\ cpc = "summarised"
    /\ shown' = KeyFinding(summary, o)
    /\ cpc' = "rendered"
    /\ UNCHANGED <<cscen, results, mort_df, geo_df, prelag, weekly_df, summary, wpc>>
    /\ UNCHANGED <<storeVars, mortVars, mergeVars, auxVars>>

InitSummary == StoreOff /\ MortOff /\ MergeOff /\ WeeklyOff /\ SummaryInit /\ AuxOff

NextSummary ==
    \/ ComputeCorrelationsExact
    \/ \E prefer_last \in BOOLEAN : SummariseCorrelations(prefer_last)
    \/ \E o \in OutcomeKeys : RenderKeyFinding(o)

SpecSummary == InitSummary /\ [][NextSummary]_vars

\* the correlation records of outcome o with a defined r, all or of one lag
DefinedRecords(o, lags) ==
    {i \in 1..Len(results) :
        results[i].outcome = o /\ ~results[i].pearson_r.nan /\ results[i].lag \in lags}

\* pick is the record of `among` named by its metric column, and no record
\* of `among` has a larger abs(r)
LargestAmong(pick, among) ==
    /\ \E i \in among : /\ results[i].metric_col = pick.metric_col
                        /\ results[i].pearson_r = pick.pearson_r
    /\ \A i \in among : ~AbsLess(pick.pearson_r, results[i].pearson_r)

\* C24: for each outcome, 'overall' is the correlation record with the
\* largest absolute Pearson r among all the outcome's records, 'same_week'
\* the one with the largest absolute r among its same-week records, 'lag1'
\* the one among its lag-1 records; so the overall pick has the absolute r of
\* the larger of the same-week and lag-1 picks.
C24_StrongestPicks ==
    cpc \in {"summarised", "rendered"} =>
        \A o \in OutcomeKeys :
            LET all == DefinedRecords(o, {"same-week", "lag-1"})
                same == DefinedRecords(o, {"same-week"})
                lagged == DefinedRecords(o, {"lag-1"})
            IN /\ (o \in DOMAIN summary.strongest_correlations) <=> (all # {})
               /\ all # {} =>
                     LET e == summary.strongest_correlations[o]
                     IN /\ LargestAmong(e.overall, all)
                        /\ (e.same_week = NoValue) <=> (same = {})
                        /\ same # {} => LargestAmong(e.same_week, same)
                        /\ (e.lag1 = NoValue) <=> (lagged = {})
                        /\ lagged # {} => LargestAmong(e.lag1, lagged)
                        /\ \A p \in {e.same_week, e.lag1} \ {NoValue} :
                              ~AbsLess(e.overall.pearson_r, p.pearson_r)
                        /\ \E p \in {e.same_week, e.lag1} \ {NoValue} :
                              ~AbsLess(p.pearson_r, e.overall.pearson_r)

\* the overall pick is a negative lag-1 record stronger than the best
\* same-week record, and an outcome with a constant column has no entry
C24_Witness ==
    /\ cpc = "summarised"
    /\ "suicide" \in DOMAIN summary.strongest_correlations
    /\ "cardiovascular" \notin DOMAIN summary.strongest_correlations
    /\ LET e == summary.strongest_correlations["suicide"]
       IN /\ e.overall.lag = "lag-1"
          /\ e.overall.pearson_r.sign = -1
          /\ e.same_week # NoValue
          /\ e.same_week.pearson_r.sign = 1
          /\ AbsLess(e.same_week.pearson_r, e.overall.pearson_r)

\* C29 (as stated): the key finding says 'higher during storm weeks' only
\* together with 'more per week' and 'lower during storm weeks' only
\* together with 'fewer per week'.
C29_KeyFindingConsistent ==
    (cpc = "rendered" /\ ~shown.raised /\ shown.kind = "finding") =>
        (shown.explanation = "higher during storm weeks" <=> shown.word = "more")

\* ---------------------------------------------------------------------------
\* components/charts.py: create_scatter_plot
\* A column name is a sequence of one-character strings; the table is the
\* set of its column names (it has rows, so the trendline has a result).
\* ---------------------------------------------------------------------------
LagSuffix == <<"_", "l", "a", "g", "1">>

\* str.endswith(suffix)
EndsWith(s, suffix) ==
    Len(s) >= Len(suffix) /\ SubSeq(s, Len(s) - Len(suffix) + 1, Len(s)) = suffix

RECURSIVE RemoveAll(_, _)
\* str.replace(pat, ''): every occurrence, scanned from the left
RemoveAll(s, pat) ==
    IF Len(s) < Len(pat) THEN s
    ELSE IF SubSeq(s, 1, Len(pat)) = pat THEN RemoveAll(SubSeq(s, Len(pat) + 1, Len(s)), pat)
    ELSE <<Head(s)>> \o RemoveAll(Tail(s), pat)

WeekPrior == " (1 week prior)"

\* the figure: the column on the x axis, the lag text of title and axis
\* label, and whether the annotation has "(Storms from previous week)"
Figure(x, lag_text) == [raised |-> FALSE, x |-> x, lag_text |-> lag_text, note |-> lag_text # ""]

\* px.scatter(df, x=x_col, ...) raises for a column the table lacks
FigureOrError(columns, x, lag_text) ==
    IF x \in columns THEN Figure(x, lag_text)
    ELSE [raised |-> TRUE, x |-> x, lag_text |-> "", note |-> FALSE]

\* (mutant) the fall-back keeps the lag text
ScatterKeepsLagText(columns, x_col, use_lag) ==
    LET lagged == use_lag /\ ~EndsWith(x_col, LagSuffix)
        x1 == IF lagged THEN x_col \o LagSuffix ELSE x_col
        lag_text == IF lagged \/ EndsWith(x_col, LagSuffix) THEN WeekPrior ELSE ""
    IN IF x1 \notin columns
         THEN FigureOrError(columns, RemoveAll(x1, LagSuffix), lag_text)
         ELSE FigureOrError(columns, x1, lag_text)

\* create_scatter_plot(df, outcome, x_col, y_col, use_lag)
create_scatter_plot(columns, x_col, use_lag) ==
    LET lagged == use_lag /\ ~EndsWith(x_col, LagSuffix)
        x1 == IF lagged THEN x_col \o LagSuffix ELSE x_col
        lag_text == IF lagged \/ EndsWith(x_col, LagSuffix) THEN WeekPrior ELSE ""
    IN IF x1 \notin columns
         THEN \* fall back to the non-lagged version
              FigureOrError(columns, RemoveAll(x1, LagSuffix), "")
         ELSE FigureOrError(columns, x1, lag_text)

\* ---- inputs ----
ColMeanKp == <<"w", "e", "e", "k", "l", "y", "_", "m", "e", "a", "n", "_", "K", "p">>
ColMeanKpLag == <<"w", "e", "e", "k", "l", "y", "_", "m", "e", "a", "n", "_", "K", "p", "_", "l", "a", "g", "1">>
ColMaxKp == <<"w", "e", "e", "k", "l", "y", "_", "m", "a", "x", "_", "K", "p">>
ColMaxKpLag == <<"w", "e", "e", "k", "l", "y", "_", "m", "a", "x", "_", "K", "p", "_", "l", "a", "g", "1">>
ColMeanKpAdjusted == <<"w", "e", "e", "k", "l", "y", "_", "m", "e", "a", "n", "_", "K", "p", "_", "a", "d", "j", "u", "s", "t", "e", "d">>

ScatterColumns == {ColMeanKp, ColMeanKpLag, ColMaxKp, ColMaxKpLag, ColMeanKpAdjusted}

ScatterInit ==
    /\ fin \in [columns : SUBSET ScatterColumns, x_col : ScatterColumns, use_lag : BOOLEAN]
    /\ fout = <<>>
    /\ fpc = "input"

\* create_scatter_plot(df, x_col=..., use_lag=...) is called
CreateScatterPlot ==
    /\ fpc = "input"
    /\ fout' = create_scatter_plot(fin.columns, fin.x_col, fin.use_lag)
    /\ fpc' = "done"
    /\ UNCHANGED fin
    /\ UNCHANGED <<storeVars, mortVars, mergeVars, weeklyVars, corrVars>>
    /\ UNCHANGED <<explorerVars, cacheVars, statVars, calVars>>

InitScatter == PipelineOff /\ ExplorerOff /\ CacheOff /\ StatOff /\ CalOff /\ ScatterInit

NextScatter == CreateScatterPlot

SpecScatter == InitScatter /\ [][NextScatter]_vars

\* x_col names no lag column
NonLag(x_col) == x_col \in {ColMeanKp, ColMaxKp, ColMeanKpAdjusted}

C28_LoadersSameRun ==
    (wkCache # NoTable /\ CacheValid(pdCache, clock)) => wkCache[1] = pdCache.bundle[1]

====
